---- MODULE Spec2Model ----
(***************************************************************************)
(* Segment editor front end: the segment store, the undo stack, the        *)
(* pending-deletion list, selection, and the asynchronous save / delete /  *)
(* chunk-load requests, as implemented by src/frontend/app.js (the soft,   *)
(* mark-then-finalize delete variant) and src/unnamed/part_000 (the hard,  *)
(* immediate-delete variant).                                              *)
(*                                                                         *)
(* Times are integers in milliseconds.  The UI thread is single threaded:  *)
(* every action below is one event handler run up to its next await, or   *)
(* the continuation of an async function after an await.                   *)
(***************************************************************************)
EXTENDS Integers, Sequences, FiniteSets, TLC

\* ------------------------------------------------------------------ bounds
MaxUndo == 3        \* entries the undo stack may hold
MaxPuts == 1        \* PUT requests in flight
MaxLoads == 1       \* loadChunk calls in flight
MaxRuns == 1        \* saveAll / finalizeDeletes runs in flight
NumChunks == 2      \* chunks the backend serves
MaxOps == 4         \* user actions (clicks, keys, drags) in one session
MaxHardOps == 5     \* the same, in the sessions of SpecHard
MaxReloadOps == 7   \* the same, in the sessions of SpecReload
MaxZoomOps == 3     \* the same, in the sessions of SpecZoom
MaxLoadOps == 4     \* the same, in the sessions of SpecLoads
MaxOverlap == 2     \* loadChunk calls in flight in the sessions of SpecLoads
MaxPutOps == 3      \* user actions in the sessions of SpecPuts
MaxInFlight == 2    \* PUT requests in flight in the sessions of SpecPuts
MaxRegionOps == 5   \* user actions in the sessions of SpecRegions
MaxStatusOps == 4   \* user actions in the sessions of SpecStatus

\* ------------------------------------------------------- program constants
Null == 0           \* null (selectedSegmentId, and the -1 of findIndex + 1)
Undefined == -1     \* a property a segment object does not have

\* ------------------------------------------------------------ backend data
ChunkDuration == 4 * 1000

Chunks(n) == [i \in 1..n |-> [chunk_id |-> i, start_time |-> (i - 1) * ChunkDuration]]

NullChunk == [chunk_id |-> Null, start_time |-> Null]

InitialSegments ==
    << [segment_id |-> 1, chunk_id |-> 1, start_sec |-> 1000, end_sec |-> 2000,
        text |-> "a", gap_type |-> ""],
       [segment_id |-> 2, chunk_id |-> 1, start_sec |-> 2000, end_sec |-> 3000,
        text |-> "a", gap_type |-> "silence"],
       [segment_id |-> 3, chunk_id |-> 2, start_sec |-> 5000, end_sec |-> 6000,
        text |-> "a", gap_type |-> ""] >>

SegIds == 1..Len(InitialSegments)

\* backend data where a segment runs over the end of its chunk's audio and
\* another starts before the start of its chunk's
StraddlingSegments ==
    << [segment_id |-> 1, chunk_id |-> 1, start_sec |-> 1000, end_sec |-> 2000,
        text |-> "a", gap_type |-> ""],
       [segment_id |-> 2, chunk_id |-> 1, start_sec |-> 3000, end_sec |-> 5000,
        text |-> "a", gap_type |-> "silence"],
       [segment_id |-> 3, chunk_id |-> 2, start_sec |-> 3500, end_sec |-> 4500,
        text |-> "a", gap_type |-> ""] >>

\* what the user can do with the mouse and the keyboard
DragInputs == { <<500, 1504>> }          \* region.start, region.end after a drag
TextInputs == { "a", "b" }               \* text typed into a text cell
TimeInputs == { <<"1", ".", "5">> }   \* typed into a time cell
\* the events that end a text edit: Enter or Escape, a blur when the focus
\* leaves the input, or a key followed by the blur of the removed input
Endings == { <<"Enter">>, <<"blur">>, <<"Escape">>,
             <<"Enter", "blur">>, <<"Escape", "blur">> }
\* the edits ended by a key alone
Keys == { <<"Enter">>, <<"Escape">> }

\* ----------------------------------------------------------------- helpers
Min(a, b) == IF a < b THEN a ELSE b
Max(a, b) == IF a > b THEN a ELSE b

\* Array.prototype.findIndex / find by segment_id; Null when absent
FindIndex(segs, id) ==
    IF \E i \in 1..Len(segs) : segs[i].segment_id = id
    THEN CHOOSE i \in 1..Len(segs) :
            /\ segs[i].segment_id = id
            /\ \A j \in 1..(i - 1) : segs[j].segment_id # id
    ELSE Null

HasSegment(segs, id) == FindIndex(segs, id) # Null

\* Array.prototype.indexOf
IndexOf(arr, x) ==
    IF \E i \in 1..Len(arr) : arr[i] = x
    THEN CHOOSE i \in 1..Len(arr) : arr[i] = x /\ \A j \in 1..(i - 1) : arr[j] # x
    ELSE Null

\* the elements of an array
Range(arr) == { arr[i] : i \in 1..Len(arr) }

\* arr.splice(i, 1), i a 1-based index
RemoveAt(arr, i) == SubSeq(arr, 1, i - 1) \o SubSeq(arr, i + 1, Len(arr))

\* arr.splice(i, 0, x), i a 1-based index; splice clamps the index to the length
InsertAt(arr, i, x) ==
    LET k == Min(i, Len(arr) + 1)
    IN  SubSeq(arr, 1, k - 1) \o <<x>> \o SubSeq(arr, k, Len(arr))

\* segment_id.toString() and parseInt(region.id)
IdToString(n) == ToString(n)
ParseInt(s) == CHOOSE n \in SegIds : ToString(n) = s

\* ------------------------------------------------- number <-> text (times)
NaN == -2           \* parseFloat of text that is no number

IsDigit(c) == \E d \in 0..9 : ToString(d) = c
DigitVal(c) == CHOOSE d \in 0..9 : ToString(d) = c

RECURSIVE Digits(_)
Digits(n) == IF n < 10 THEN <<ToString(n)>> ELSE Digits(n \div 10) \o <<ToString(n % 10)>>

RECURSIVE NumVal(_)
NumVal(ds) == IF ds = <<>> THEN 0 ELSE NumVal(SubSeq(ds, 1, Len(ds) - 1)) * 10 + DigitVal(ds[Len(ds)])

\* Number.prototype.toFixed(2) of a time in ms: the text with two decimals
ToFixed2(ms) ==
    LET cs == (ms + 5) \div 10
    IN  Digits(cs \div 100) \o <<".">> \o <<ToString((cs \div 10) % 10), ToString(cs % 10)>>

\* parseFloat of typed text, in ms
ParseFloat(s) ==
    LET dot == IndexOf(s, ".")
        whole == IF dot = Null THEN s ELSE SubSeq(s, 1, dot - 1)
        frac == IF dot = Null THEN <<>> ELSE SubSeq(s, dot + 1, Len(s))
        frac3 == SubSeq(frac \o <<"0", "0", "0">>, 1, 3)
    IN  IF /\ whole # <<>>
           /\ \A i \in 1..Len(whole) : IsDigit(whole[i])
           /\ \A i \in 1..Len(frac) : IsDigit(frac[i])
        THEN NumVal(whole) * 1000 + NumVal(frac3)
        ELSE NaN

\* ----------------------------------------------------------------- backend
\* JSON of GET /api/segments?chunk_id=c parsed into fresh objects: the rows the
\* backend still holds for the chunk, in id order
FreshSegment(row) ==
    [segment_id |-> row.segment_id, chunk_id |-> row.chunk_id,
     start_sec |-> row.start_sec, end_sec |-> row.end_sec, text |-> row.text,
     gap_type |-> row.gap_type,
     markedForDeletion |-> FALSE, start_time |-> Undefined, end_time |-> Undefined]

RECURSIVE RowsOf(_, _, _)
RowsOf(srv, c, i) ==
    IF i > Len(srv) THEN <<>>
    ELSE (IF srv[i].present /\ srv[i].row.chunk_id = c
          THEN <<FreshSegment(srv[i].row)>> ELSE <<>>) \o RowsOf(srv, c, i + 1)

GetSegments(srv, c) == RowsOf(srv, c, 1)

\* PUT /api/segments/<id>: the backend overwrites the fields the body carries
ServerPut(srv, id, body) ==
    [srv EXCEPT ![id].row =
        [f \in DOMAIN @ |-> IF f \in DOMAIN body /\ f \in {"start_sec", "end_sec", "text"}
                            THEN body[f] ELSE @[f]]]

\* DELETE /api/segments/<id>
ServerDelete(srv, id) == [srv EXCEPT ![id].present = FALSE]

\* ------------------------------------------------------------------- state
VARIABLES
    variant,            \* "soft": src/frontend/app.js, "hard": src/unnamed/part_000
    booted,             \* init() has got past api.getChunks()
    chunks,             \* state.chunks
    segments,           \* state.segments
    currentChunkId,     \* state.currentChunkId
    currentChunk,       \* state.currentChunk
    selectedSegmentId,  \* state.selectedSegmentId
    undoStack,          \* state.undoStack
    deletedSegments,    \* state.deletedSegments
    hasUnsavedChanges,  \* state.hasUnsavedChanges
    regions,            \* state.regions: the colour, start and end of each region, by id
    table,              \* the rows of #segmentsBody: id, start, end and text cells
    undoBtnDisabled,    \* elements.undoBtn.disabled
    deleteBtnDisabled,  \* deleteBtn.disabled
    status,             \* elements.status: text and class
    server,             \* the rows the backend holds
    puts,               \* PUT requests awaiting their response
    runs,               \* saveAll / finalizeDeletes runs awaiting a DELETE response
    loads,              \* loadChunk calls awaiting a response
    ops,                \* history: user actions still to come in this session
    streak,             \* history: undos the user has just done in a row
    shadow,             \* history: per undo entry, the store when it was pushed
    lastOp              \* history: the handler that ran last, and what it saw

vars == <<variant, booted, chunks, segments, currentChunkId, currentChunk, table,
          selectedSegmentId, undoStack, deletedSegments, hasUnsavedChanges, regions,
          undoBtnDisabled, deleteBtnDisabled, status, server, puts, runs, loads,
          ops, streak, shadow, lastOp>>

\* the sessions that go on for the 3000 ms of a timer of setStatus keep count
\* of the timers pending; the others end before any of them fires
Timed == "timers" \in DOMAIN status

\* setStatus(message, type): the text and class of the status line, and one
\* more auto-clear timer pending when the type is 'saved'
Status(message, type) ==
    IF Timed
    THEN [message |-> message, type |-> type,
          timers |-> IF type = "saved" THEN status.timers + 1 ELSE status.timers]
    ELSE [message |-> message, type |-> type]

\* the page as loaded, before init() has run, with a budget of user actions
LoadedWith(budget, rows, timed) ==
    /\ ops = budget
    /\ booted = FALSE
    /\ chunks = <<>>
    /\ segments = <<>>
    /\ currentChunkId = 1
    /\ currentChunk = NullChunk
    /\ selectedSegmentId = Null
    /\ undoStack = <<>>
    /\ deletedSegments = <<>>
    /\ hasUnsavedChanges = FALSE
    /\ regions = <<>>
    /\ table = <<>>
    /\ undoBtnDisabled = TRUE
    /\ deleteBtnDisabled = TRUE
    /\ status = IF timed THEN [message |-> "", type |-> "", timers |-> 0]
                ELSE [message |-> "", type |-> ""]
    /\ server = [i \in SegIds |-> [present |-> TRUE, row |-> rows[i]]]
    /\ puts = <<>>
    /\ runs = <<>>
    /\ loads = <<>>
    /\ streak = 0
    /\ shadow = <<>>
    /\ lastOp = [op |-> "none"]

Loaded(budget) == LoadedWith(budget, InitialSegments, FALSE)

Init == variant \in {"soft", "hard"} /\ Loaded(MaxOps)

\* --------------------------------------------------------- history helpers
\* one more user action
Tick == ops > 0 /\ ops' = ops - 1 /\ streak' = 0

\* one more undo
TickUndo == ops > 0 /\ ops' = ops - 1 /\ streak' = streak + 1

\* a handler no property below looks back at
Other == [op |-> "other"]

\* a user action or a chunk load took effect while a batch was awaiting
Disturb(rs) == [i \in 1..Len(rs) |-> [rs[i] EXCEPT !.quiet = FALSE]]

\* a chunk load, a save or a finalize lies between the push and now
Invalidate(sh) == [i \in 1..Len(sh) |-> [sh[i] EXCEPT !.ok = FALSE]]

IsDelete(entry) == "type" \in DOMAIN entry /\ entry.type = "delete"

\* a slip: nothing is filtered out
PurgeNothing(stack) == stack

\* state.undoStack.filter(item => item.type !== 'delete')
RECURSIVE PurgeDeletes(_)
PurgeDeletes(stack) ==
    IF stack = <<>> THEN <<>>
    ELSE (IF IsDelete(Head(stack)) THEN <<>> ELSE <<Head(stack)>>) \o PurgeDeletes(Tail(stack))

RECURSIVE PurgeShadow(_, _)
PurgeShadow(stack, sh) ==
    IF stack = <<>> THEN <<>>
    ELSE (IF IsDelete(Head(stack)) THEN <<>> ELSE <<Head(sh)>>)
         \o PurgeShadow(Tail(stack), Tail(sh))

\* ----------------------------------------------------------------- regions
\* the colours of a region
Gold == "rgba(255, 215, 0, 0.5)"       \* selected
Grey == "rgba(136, 136, 136, 0.3)"     \* gap
Violet == "rgba(79, 74, 133, 0.4)"     \* default
Red == "rgba(255, 0, 0, 0.3)"          \* marked for deletion

\* isGap ? grey : default, for the region of segment n
BaseColor(segs, n) ==
    LET idx == FindIndex(segs, n)
    IN  IF idx # Null /\ segs[idx].gap_type # "" THEN Grey ELSE Violet

\* highlightRegion(id): every region is given a colour
HighlightRegion(regs, segs, id) ==
    [r \in DOMAIN regs |->
        [regs[r] EXCEPT !.color = IF ParseInt(r) = id THEN Gold
                                  ELSE BaseColor(segs, ParseInt(r))]]

\* region.setOptions({color}) on the region of segment n, if there is one
SetColor(regs, n, color) ==
    IF IdToString(n) \in DOMAIN regs THEN [regs EXCEPT ![IdToString(n)].color = color]
    ELSE regs

\* region.remove() on the regions of the segments ids
RemoveRegions(regs, ids) ==
    [r \in DOMAIN regs \ { IdToString(n) : n \in ids } |-> regs[r]]

\* createRegions: one region per segment inside the chunk's window
RegionIds(segs, chunk) ==
    IF chunk = NullChunk THEN {}
    ELSE { IdToString(segs[i].segment_id) : i \in
            { j \in 1..Len(segs) :
                LET localStart == segs[j].start_sec - chunk.start_time
                    localEnd == segs[j].end_sec - chunk.start_time
                IN  ~(localEnd < 0 \/ localStart > ChunkDuration) } }

\* a slip: the region is given the segment's local times as they are
Unclamped(seg, chunk) ==
    [color |-> IF seg.gap_type # "" THEN Grey ELSE Violet,
     start |-> seg.start_sec - chunk.start_time,
     end |-> seg.end_sec - chunk.start_time]

\* the options createRegions passes to addRegion for a segment
RegionOf(seg, chunk) ==
    LET localStart == seg.start_sec - chunk.start_time
        localEnd == seg.end_sec - chunk.start_time
    IN  [color |-> IF seg.gap_type # "" THEN Grey ELSE Violet,
         start |-> Max(0, localStart),
         end |-> Min(ChunkDuration, localEnd)]

\* createRegions with selected the selection at that moment
CreateRegions(segs, chunk, selected) ==
    LET fresh == [r \in RegionIds(segs, chunk) |->
                    RegionOf(segs[FindIndex(segs, ParseInt(r))], chunk)]
    IN  IF selected # Null THEN HighlightRegion(fresh, segs, selected) ELSE fresh

\* ------------------------------------------------------------------- table
\* renderTable: one row per segment of the store, times with two decimals
RenderTable(segs) ==
    [i \in 1..Len(segs) |-> [segment_id |-> segs[i].segment_id,
                             start |-> ToFixed2(segs[i].start_sec),
                             end |-> ToFixed2(segs[i].end_sec),
                             text |-> segs[i].text,
                             deleted |-> FALSE]]

\* updateTableRow: the time cells of the row of segmentId, from the store
UpdateTableRow(tbl, segs, segmentId) ==
    LET idx == FindIndex(segs, segmentId)
        row == FindIndex(tbl, segmentId)
    IN  IF idx = Null \/ row = Null THEN tbl
        ELSE [tbl EXCEPT ![row].start = ToFixed2(segs[idx].start_sec),
                         ![row].end = ToFixed2(segs[idx].end_sec)]

\* a slip: the live values are written into every row
UpdateAllRowsLive(tbl, chunk, segmentId, region) ==
    [i \in 1..Len(tbl) |-> [tbl[i] EXCEPT !.start = ToFixed2(region[1] + chunk.start_time),
                                          !.end = ToFixed2(region[2] + chunk.start_time)]]

\* updateTableRowLive: the time cells of the row of segmentId, from the region
\* being dragged (region = <<start, end>>)
UpdateTableRowLive(tbl, chunk, segmentId, region) ==
    LET row == FindIndex(tbl, segmentId)
    IN  IF row = Null THEN tbl
        ELSE [tbl EXCEPT ![row].start = ToFixed2(region[1] + chunk.start_time),
                         ![row].end = ToFixed2(region[2] + chunk.start_time)]

\* cell.textContent = value, for the cell of a row
SetCell(tbl, segmentId, cell, value) ==
    LET row == FindIndex(tbl, segmentId)
    IN  IF row = Null THEN tbl ELSE [tbl EXCEPT ![row][cell] = value]

\* --------------------------------------------------------------- selection
\* a slip: the mark is not looked at
DeleteBtnIgnoresMark(segs, id) == FindIndex(segs, id) = Null

\* what selectSegment(id) leaves in deleteBtn.disabled
DeleteBtnAfterSelect(segs, id) ==
    LET idx == FindIndex(segs, id)
    IN  IF variant = "soft"
        THEN idx = Null \/ segs[idx].markedForDeletion
        ELSE idx = Null

\* what selectSegment is called with: the number a table row carries, or the
\* id of a region, which is a string
RowClick(n) == [type |-> "number", value |-> n]
RegionClick(n) == [type |-> "string", value |-> IdToString(n)]

\* a slip: the argument is used as it comes, and a string matches no number
SelectedIdRaw(arg) == IF arg.type = "string" THEN Null ELSE arg.value

\* typeof segmentId === 'string' ? parseInt(segmentId) : segmentId
SelectedId(arg) == IF arg.type = "string" THEN ParseInt(arg.value) ELSE arg.value

\* what the page reports when zoomToSegment asks: the width of the waveform
\* container in px and the duration of the audio in ms
ViewportWidth == 1000
View(width, duration) == [width |-> width, duration |-> duration]
DefaultView == View(ViewportWidth, ChunkDuration)

\* a zoom level as a fraction <<px, ms>>, ms >= 0: times are in ms here, so
\* containerWidth / seconds is <<containerWidth, ms>> and 500 is <<500, 1000>>
FLess(a, b) == a[1] * b[2] < b[1] * a[2]
FMin(a, b) == IF FLess(b, a) THEN b ELSE a
FMax(a, b) == IF FLess(a, b) THEN b ELSE a

MaxZoom == 500

\* a slip: the two clamps in the other order
ZoomCapLast(seg, chunk, view) ==
    LET segmentDuration == (seg.end_sec - chunk.start_time) - (seg.start_sec - chunk.start_time)
        pxPerSec == <<view.width, 2 * segmentDuration>>
        minZoom == <<view.width, view.duration>>
    IN  FMin(<<MaxZoom, 1000>>, FMax(minZoom, pxPerSec))

\* zoomToSegment: the zoom level handed to wavesurfer.zoom; the segment is to
\* fill half of the visible duration (segmentDuration / 0.5)
ZoomToSegment(seg, chunk, view) ==
    LET segmentDuration == (seg.end_sec - chunk.start_time) - (seg.start_sec - chunk.start_time)
        pxPerSec == <<view.width, 2 * segmentDuration>>
        minZoom == <<view.width, view.duration>>
    IN  FMax(minZoom, FMin(<<MaxZoom, 1000>>, pxPerSec))

\* exact arithmetic on fractions <<numerator, denominator>>, denominator > 0
RECURSIVE Gcd(_, _)
Gcd(a, b) == IF b = 0 THEN a ELSE Gcd(b, a % b)

Abs(n) == IF n < 0 THEN -n ELSE n

Reduced(a) ==
    LET g == Gcd(Abs(a[1]), a[2])
    IN  IF g = 0 THEN a ELSE <<a[1] \div g, a[2] \div g>>

FMul(a, b) ==
    LET g1 == Gcd(Abs(a[1]), b[2])
        g2 == Gcd(Abs(b[1]), a[2])
    IN  IF g1 = 0 \/ g2 = 0 THEN <<0, 1>>
        ELSE <<(a[1] \div g1) * (b[1] \div g2), (a[2] \div g2) * (b[2] \div g1)>>

FSub(a, b) == Reduced(<<a[1] * b[2] - b[1] * a[2], a[2] * b[2]>>)

\* a slip: the scroll offset is not kept from going below 0
ScrollNoFloor(timeRatio, pxPerSec, view) ==
    LET totalWidth == FMul(pxPerSec, <<view.duration, 1>>)
        centerPx == FMul(timeRatio, totalWidth)
        targetScroll == FSub(centerPx, <<view.width, 2>>)
        maxScroll == FMax(<<0, 1>>, FSub(totalWidth, <<view.width, 1>>))
    IN  FMin(targetScroll, maxScroll)

\* centerOnTime: the scroll offset in px handed to setScroll, for a zoom level
\* pxPerSec in px per ms and a duration in ms
CenterOnTime(timeRatio, pxPerSec, view) ==
    LET totalWidth == FMul(pxPerSec, <<view.duration, 1>>)
        centerPx == FMul(timeRatio, totalWidth)
        targetScroll == FSub(centerPx, <<view.width, 2>>)
        maxScroll == FMax(<<0, 1>>, FSub(totalWidth, <<view.width, 1>>))
    IN  FMax(<<0, 1>>, FMin(targetScroll, maxScroll))

\* zoomToSegment: the scroll offset it asks centerOnTime for, the centre of the
\* segment being (localStart + localEnd) / 2 / totalDuration of the audio
ScrollToSegment(seg, chunk, view) ==
    LET localStart == seg.start_sec - chunk.start_time
        localEnd == seg.end_sec - chunk.start_time
        centerRatio == <<localStart + localEnd, 2 * view.duration>>
    IN  CenterOnTime(centerRatio, ZoomToSegment(seg, chunk, view), view)

\* highlightRegion: the regions that get the selection colour
Highlighted(regs, id) == { r \in DOMAIN regs : ParseInt(r) = id }

\* a click on a table row or on a region, with the page reporting view
selectSegment(arg, view) ==
    /\ booted
    /\ Tick
    /\ IF arg.type = "string" THEN arg.value \in DOMAIN regions
       ELSE HasSegment(segments, arg.value)
    /\ LET id == SelectedId(arg)
           idx == FindIndex(segments, id)
       IN  /\ selectedSegmentId' = id
           /\ deleteBtnDisabled' = DeleteBtnAfterSelect(segments, id)
           /\ regions' = HighlightRegion(regions, segments, id)
           /\ lastOp' = [op |-> "selectSegment", arg |-> arg, view |-> view,
                         found |-> idx # Null,
                         highlight |-> Highlighted(regions, id),
                         zoom |-> IF idx # Null /\ currentChunk # NullChunk
                                  THEN ZoomToSegment(segments[idx], currentChunk, view)
                                  ELSE <<>>,
                         scroll |-> IF idx # Null /\ currentChunk # NullChunk
                                    THEN ScrollToSegment(segments[idx], currentChunk, view)
                                    ELSE <<>>]
    /\ runs' = Disturb(runs)
    /\ UNCHANGED <<table, variant, booted, chunks, segments, currentChunkId, currentChunk,
                   undoStack, deletedSegments, hasUnsavedChanges,
                   undoBtnDisabled, status, server, puts, loads, shadow>>

\* a slip: a segment marked for deletion is not selected by the arrow keys
NavigateSkipsMarked(segs, selected, direction) ==
    LET newIndex == FindIndex(segs, selected) + direction
    IN  IF newIndex >= 1 /\ newIndex <= Len(segs) /\ ~segs[newIndex].markedForDeletion
        THEN segs[newIndex].segment_id
        ELSE selected

\* the selection navigateSegment leaves behind: findIndex gives -1 (here Null,
\* one below the first index) when nothing in state.segments is selected
NavigateTarget(segs, selected, direction) ==
    LET newIndex == FindIndex(segs, selected) + direction
    IN  IF newIndex >= 1 /\ newIndex <= Len(segs)
        THEN segs[newIndex].segment_id
        ELSE selected

\* ArrowLeft / ArrowRight
navigateSegment(direction) ==
    /\ booted
    /\ Tick
    /\ LET currentIndex == FindIndex(segments, selectedSegmentId)
           newIndex == currentIndex + direction
           moved == newIndex >= 1 /\ newIndex <= Len(segments)
       IN  /\ selectedSegmentId' = NavigateTarget(segments, selectedSegmentId, direction)
           /\ deleteBtnDisabled' =
                IF moved THEN DeleteBtnAfterSelect(segments, segments[newIndex].segment_id)
                ELSE deleteBtnDisabled
           /\ regions' =
                IF moved THEN HighlightRegion(regions, segments, segments[newIndex].segment_id)
                ELSE regions
           /\ runs' = IF moved THEN Disturb(runs) ELSE runs
           /\ lastOp' = [op |-> "navigateSegment", direction |-> direction,
                         index |-> currentIndex, moved |-> moved]
    /\ UNCHANGED <<table, variant, booted, chunks, segments, currentChunkId, currentChunk,
                   undoStack, deletedSegments, hasUnsavedChanges,
                   undoBtnDisabled, status, server, puts, loads, shadow>>

\* -------------------------------------------------------------- chunk load
\* the calls of loadChunk (named by the budget left when they started) whose
\* segment fetch has not returned
Awaited(ls) == { ls[k].tick : k \in { j \in 1..Len(ls) : ls[j].phase = "segments" } }

\* loadChunk up to its first await: the chunk is looked up and made current
\* before the segments are fetched
LoadChunkStart(chunkId, caller) ==
    LET found == chunkId \in 1..Len(chunks')
    IN  /\ currentChunk' = IF found THEN chunks'[chunkId] ELSE NullChunk
        /\ currentChunkId' = IF found THEN chunkId ELSE currentChunkId
        /\ status' = IF found THEN Status("Loading...", "saving")
                     ELSE Status("Chunk not found", "error")
        /\ loads' = IF found
                    THEN Append(loads, [chunkId |-> chunkId, phase |-> "segments",
                                        caller |-> caller,
                                        before |-> [currentChunkId |-> currentChunkId,
                                                    currentChunk |-> currentChunk,
                                                    segments |-> segments],
                                        tick |-> ops',
                                        over |-> Awaited(loads),
                                        fetched |-> <<>>,
                                        ended |-> <<>>])
                    ELSE loads

\* init(): api.getChunks() answered (n chunks) or failed, then loadChunk(1)
init(n, ok) ==
    /\ UNCHANGED <<ops, streak>>
    /\ ~booted /\ status = Status("", "")     \* the page has just been opened
    /\ booted' = ok                           \* listeners are set up after getChunks
    /\ IF ok
       THEN /\ chunks' = Chunks(n)
            /\ LoadChunkStart(1, "init")
       ELSE /\ status' = Status("Failed to load", "error")
            /\ UNCHANGED <<chunks, currentChunk, currentChunkId, loads>>
    /\ lastOp' = [op |-> "init", ok |-> ok, chunks |-> Len(chunks')]
    /\ UNCHANGED <<table, variant, segments, selectedSegmentId, undoStack, deletedSegments,
                   hasUnsavedChanges, regions, undoBtnDisabled, deleteBtnDisabled,
                   server, puts, runs, shadow>>

\* prevChunkBtn / nextChunkBtn click, with at most maxLoads calls in flight
LoadChunk(direction, maxLoads) ==
    /\ booted
    /\ Tick
    /\ chunks # <<>>
    /\ Len(loads) < maxLoads
    /\ IF direction = -1 THEN currentChunkId > 1 ELSE currentChunkId < Len(chunks)
    /\ UNCHANGED chunks
    /\ LoadChunkStart(currentChunkId + direction, "click")
    /\ runs' = Disturb(runs)
    /\ lastOp' = Other
    /\ UNCHANGED <<table, variant, booted, segments, selectedSegmentId, undoStack,
                   deletedSegments, hasUnsavedChanges, regions, undoBtnDisabled,
                   deleteBtnDisabled, server, puts, shadow>>

loadChunk(direction) == LoadChunk(direction, MaxLoads)

\* what the calls still in flight remember of a call that ended
Ended(load, failed) ==
    [tick |-> load.tick, chunkId |-> load.chunkId, over |-> load.over,
     fetched |-> load.fetched, ok |-> ~failed]

\* a loadChunk call ends: it leaves the list of calls in flight; only init
\* catches a rejection
LoadEnds(i, failed) ==
    /\ loads' = RemoveAt([k \in 1..Len(loads) |->
                              [loads[k] EXCEPT !.ended = Append(@, Ended(loads[i], failed))]], i)
    /\ status' = IF ~failed THEN Status("", "")
                 ELSE IF loads[i].caller = "init" THEN Status("Failed to load", "error")
                 ELSE status

\* api.getSegments answers: the store is replaced and the table rendered; or the
\* fetch rejects and loadChunk throws
loadChunkSegments(i, ok) ==
    /\ UNCHANGED <<ops, streak>>
    /\ i \in 1..Len(loads)
    /\ loads[i].phase = "segments"
    /\ IF ok
       THEN /\ segments' = GetSegments(server, loads[i].chunkId)
            /\ table' = RenderTable(segments')
            /\ loads' = [loads EXCEPT ![i].phase = "audio", ![i].fetched = segments']
            /\ shadow' = Invalidate(shadow)
            /\ runs' = Disturb(runs)
            /\ UNCHANGED status
       ELSE /\ LoadEnds(i, TRUE)
            /\ UNCHANGED <<segments, table, shadow, runs>>
    /\ lastOp' = [op |-> "loadChunkSegments", ok |-> ok, chunkId |-> loads[i].chunkId,
                  caller |-> loads[i].caller, before |-> loads[i].before]
    /\ UNCHANGED <<variant, booted, chunks, currentChunkId, currentChunk,
                   selectedSegmentId, undoStack, deletedSegments, hasUnsavedChanges,
                   regions, undoBtnDisabled, deleteBtnDisabled, server, puts>>

\* wavesurfer.load answers: 'ready' rebuilds the regions, then the status is
\* cleared; or the audio fails to load and loadChunk throws
loadChunkAudio(i, ok) ==
    /\ UNCHANGED <<ops, streak>>
    /\ i \in 1..Len(loads)
    /\ loads[i].phase = "audio"
    /\ regions' = IF ok THEN CreateRegions(segments, currentChunk, selectedSegmentId)
                  ELSE regions
    /\ LoadEnds(i, ~ok)
    /\ lastOp' = [op |-> "loadChunkAudio", ok |-> ok, load |-> loads[i]]
    /\ UNCHANGED <<table, variant, booted, chunks, segments, currentChunkId, currentChunk,
                   selectedSegmentId, undoStack, deletedSegments, hasUnsavedChanges,
                   undoBtnDisabled, deleteBtnDisabled, server, puts, runs, shadow>>

\* ------------------------------------------------------------- field edits
\* saveSegmentUpdate up to its await: the status and the request sent
SaveSegmentUpdate(segmentId, updates, caller) ==
    /\ status' = Status("Saving...", "saving")
    /\ puts' = Append(puts, [segmentId |-> segmentId, updates |-> updates,
                             caller |-> caller, tick |-> ops', ended |-> <<>>])

\* region-updated: a drag or resize of region rid ended at drag = <<start, end>>
handleRegionUpdate(rid, drag) ==
    /\ booted
    /\ Tick
    /\ rid \in DOMAIN regions
    /\ HasSegment(segments, ParseInt(rid))
    /\ currentChunk # NullChunk
    /\ Len(undoStack) < MaxUndo
    /\ Len(puts) < MaxPuts
    /\ LET segmentId == ParseInt(rid)
           idx == FindIndex(segments, segmentId)
           newStartSec == drag[1] + currentChunk.start_time
           newEndSec == drag[2] + currentChunk.start_time
       IN  /\ undoStack' = Append(undoStack, [segmentId |-> segmentId,
                                              oldStart |-> segments[idx].start_sec,
                                              oldEnd |-> segments[idx].end_sec])
           /\ shadow' = Append(shadow, [pre |-> segments, ok |-> TRUE])
           /\ undoBtnDisabled' = FALSE
           /\ segments' = [segments EXCEPT ![idx].start_sec = newStartSec,
                                           ![idx].end_sec = newEndSec]
           /\ table' = UpdateTableRow(table, segments', segmentId)
           /\ hasUnsavedChanges' = TRUE
           /\ SaveSegmentUpdate(segmentId, [start_sec |-> newStartSec,
                                            end_sec |-> newEndSec], "edit")
           /\ lastOp' = [op |-> "handleRegionUpdate", id |-> segmentId,
                         start_sec |-> newStartSec, end_sec |-> newEndSec]
    /\ runs' = Disturb(runs)
    /\ regions' = [regions EXCEPT ![rid].start = drag[1], ![rid].end = drag[2]]
    /\ UNCHANGED <<variant, booted, chunks, currentChunkId, currentChunk,
                   selectedSegmentId, deletedSegments, deleteBtnDisabled,
                   server, loads>>

\* finishEdit(save) is called with TRUE by Enter and by blur, with FALSE by
\* Escape
Save(event) == event # "Escape"

\* every call of finishEdit that an ending makes
EveryCall(ending) == ending

\* the calls of finishEdit that run past its guard: the first call removes the
\* class 'editing' from the cell, and a later call returns at once
EditingCalls(ending) == SubSeq(ending, 1, 1)

\* a double click on the text cell of segment id, newText typed, and the events
\* that end the edit, with at most maxPuts PUTs in flight
StartTextEdit(id, newText, ending, maxPuts) ==
    /\ booted
    /\ Tick
    /\ HasSegment(segments, id)
    /\ LET idx == FindIndex(segments, id)
           originalText == segments[idx].text
           calls == EditingCalls(ending)
           commits == IF newText # originalText THEN SelectSeq(calls, Save) ELSE <<>>
           n == Len(commits)
       IN  IF n > 0
           THEN /\ Len(undoStack) < MaxUndo
                /\ Len(puts) < maxPuts
                /\ undoStack' = undoStack \o [k \in 1..n |->
                                     [segmentId |-> id, oldText |-> originalText]]
                /\ shadow' = shadow \o [k \in 1..n |-> [pre |-> segments, ok |-> TRUE]]
                /\ undoBtnDisabled' = FALSE
                /\ segments' = [segments EXCEPT ![idx].text = newText]
                /\ table' = SetCell(table, id, "text",
                                    IF Save(calls[Len(calls)]) THEN newText ELSE originalText)
                /\ status' = Status("Saving...", "saving")
                /\ puts' = puts \o [k \in 1..n |->
                                     [segmentId |-> id, updates |-> [text |-> newText],
                                      caller |-> "edit", tick |-> ops', ended |-> <<>>]]
                /\ lastOp' = [op |-> "startTextEdit", id |-> id, ending |-> ending]
           ELSE /\ lastOp' = [op |-> "finishEdit"]
                /\ table' = SetCell(table, id, "text",
                                    IF Save(calls[Len(calls)]) THEN newText ELSE originalText)
                /\ UNCHANGED <<undoStack, shadow, undoBtnDisabled, segments, status, puts>>
    /\ runs' = Disturb(runs)
    /\ UNCHANGED <<variant, booted, chunks, currentChunkId, currentChunk,
                   selectedSegmentId, deletedSegments, hasUnsavedChanges, regions,
                   deleteBtnDisabled, server, loads>>

startTextEdit(id, newText, ending) == StartTextEdit(id, newText, ending, MaxPuts)

\* the body of the PUT of a table time edit: JSON.stringify drops the
\* properties that are undefined
TimeUpdates(seg) ==
    [f \in { g \in {"start_time", "end_time"} : seg[g] # Undefined } |-> seg[f]]

\* double click on the start (isStart) or end time cell of segment id, newTime
\* typed, then Enter or blur (save) or Escape (~save); soft variant only
startTimeEdit(id, isStart, newTime, save) ==
    /\ booted
    /\ Tick
    /\ variant = "soft"
    /\ HasSegment(segments, id)
    /\ LET idx == FindIndex(segments, id)
           originalTime == IF isStart THEN segments[idx].start_sec
                           ELSE segments[idx].end_sec
           edited == IF isStart
                     THEN [segments[idx] EXCEPT !.start_time = ParseFloat(newTime)]
                     ELSE [segments[idx] EXCEPT !.end_time = ParseFloat(newTime)]
       IN  IF save /\ newTime # ToFixed2(originalTime)
           THEN /\ Len(undoStack) < MaxUndo
                /\ Len(puts) < MaxPuts
                /\ undoStack' = Append(undoStack, [segmentId |-> id,
                                                   time |-> ToFixed2(originalTime)])
                /\ shadow' = Append(shadow, [pre |-> segments, ok |-> TRUE])
                /\ undoBtnDisabled' = FALSE
                /\ segments' = [segments EXCEPT ![idx] = edited]
                /\ table' = SetCell(table, id, IF isStart THEN "start" ELSE "end", newTime)
                /\ SaveSegmentUpdate(id, TimeUpdates(edited), "edit")
                /\ lastOp' = [op |-> "startTimeEdit", id |-> id, newTime |-> newTime]
           ELSE /\ lastOp' = Other
                /\ table' = SetCell(table, id, IF isStart THEN "start" ELSE "end",
                                     IF save THEN newTime ELSE ToFixed2(originalTime))
                /\ UNCHANGED <<undoStack, shadow, undoBtnDisabled, segments, status, puts>>
    /\ runs' = Disturb(runs)
    /\ UNCHANGED <<variant, booted, chunks, currentChunkId, currentChunk,
                   selectedSegmentId, deletedSegments, hasUnsavedChanges, regions,
                   deleteBtnDisabled, server, loads>>

\* what the PUTs still in flight remember of a PUT that was answered
Answered(put, ok) ==
    [tick |-> put.tick, segmentId |-> put.segmentId, updates |-> put.updates, ok |-> ok]

\* put was overtaken: a PUT for the same segment sent after it was answered
\* before it
Overtaken(put) ==
    \E k \in 1..Len(put.ended) :
        /\ put.ended[k].ok
        /\ put.ended[k].tick < put.tick
        /\ put.ended[k].segmentId = put.segmentId

\* a slip: the backend drops a PUT that was overtaken
StaleWriteDropped(srv, put) == IF Overtaken(put) THEN srv
                               ELSE ServerPut(srv, put.segmentId, put.updates)

\* the backend applies the PUTs in the order they reach it
Applied(srv, put) == ServerPut(srv, put.segmentId, put.updates)

\* a slip: undo does not recompute its button after the await
saveSegmentUpdateDoneNoButton(i, ok) ==
    /\ UNCHANGED <<ops, streak>>
    /\ i \in 1..Len(puts)
    /\ server' = IF ok THEN Applied(server, puts[i]) ELSE server
    /\ status' = IF ok THEN Status("Saved", "saved") ELSE Status("Save failed", "error")
    /\ puts' = RemoveAt([k \in 1..Len(puts) |->
                            [puts[k] EXCEPT !.ended = Append(@, Answered(puts[i], ok))]], i)
    /\ lastOp' = [op |-> "saveSegmentUpdateDone", ok |-> ok, caller |-> puts[i].caller,
                  put |-> puts[i]]
    /\ UNCHANGED <<table, variant, booted, chunks, segments, currentChunkId,
                   currentChunk, selectedSegmentId, undoStack, deletedSegments,
                   hasUnsavedChanges, regions, deleteBtnDisabled, runs, loads, shadow,
                   undoBtnDisabled>>

\* a slip: a rejected PUT takes the newest undo entry off the stack
saveSegmentUpdateDoneDrops(i, ok) ==
    /\ UNCHANGED <<ops, streak>>
    /\ i \in 1..Len(puts)
    /\ server' = IF ok THEN Applied(server, puts[i]) ELSE server
    /\ status' = IF ok THEN Status("Saved", "saved") ELSE Status("Save failed", "error")
    /\ undoStack' = IF ok THEN undoStack ELSE SubSeq(undoStack, 1, Len(undoStack) - 1)
    /\ shadow' = IF ok THEN shadow ELSE SubSeq(shadow, 1, Len(undoStack'))
    /\ undoBtnDisabled' = IF puts[i].caller = "undo" THEN undoStack' = <<>>
                          ELSE undoBtnDisabled
    /\ puts' = RemoveAt([k \in 1..Len(puts) |->
                            [puts[k] EXCEPT !.ended = Append(@, Answered(puts[i], ok))]], i)
    /\ lastOp' = [op |-> "saveSegmentUpdateDone", ok |-> ok, caller |-> puts[i].caller,
                  put |-> puts[i]]
    /\ UNCHANGED <<table, variant, booted, chunks, segments, currentChunkId, currentChunk,
                   selectedSegmentId, deletedSegments, hasUnsavedChanges,
                   regions, deleteBtnDisabled, runs, loads>>

\* the PUT of puts[i] is answered (ok) or rejects: saveSegmentUpdate sets the
\* status, and undo, which awaited it, recomputes its button
saveSegmentUpdateDone(i, ok) ==
    /\ UNCHANGED <<ops, streak>>
    /\ i \in 1..Len(puts)
    /\ server' = IF ok THEN Applied(server, puts[i]) ELSE server
    /\ status' = IF ok THEN Status("Saved", "saved") ELSE Status("Save failed", "error")
    /\ undoBtnDisabled' = IF puts[i].caller = "undo" THEN undoStack = <<>>
                          ELSE undoBtnDisabled
    /\ puts' = RemoveAt([k \in 1..Len(puts) |->
                            [puts[k] EXCEPT !.ended = Append(@, Answered(puts[i], ok))]], i)
    /\ lastOp' = [op |-> "saveSegmentUpdateDone", ok |-> ok, caller |-> puts[i].caller,
                  put |-> puts[i]]
    /\ UNCHANGED <<table, variant, booted, chunks, segments, currentChunkId, currentChunk,
                   selectedSegmentId, undoStack, deletedSegments, hasUnsavedChanges,
                   regions, deleteBtnDisabled, runs, loads, shadow>>

\* a region 'update' event while region rid is being dragged, live = its
\* <<start, end>> at that moment; soft variant only
updateTableRowLive(rid, live) ==
    /\ booted
    /\ Tick
    /\ variant = "soft"
    /\ rid \in DOMAIN regions
    /\ table' = UpdateTableRowLive(table, currentChunk, ParseInt(rid), live)
    /\ lastOp' = [op |-> "updateTableRowLive", id |-> ParseInt(rid), live |-> live]
    /\ UNCHANGED <<variant, booted, chunks, segments, currentChunkId, currentChunk,
                   selectedSegmentId, undoStack, deletedSegments, hasUnsavedChanges,
                   regions, undoBtnDisabled, deleteBtnDisabled, status, server, puts,
                   runs, loads, shadow>>

\* ------------------------------------------------------------------ delete
\* a slip: the neighbour is taken whether or not it is marked
NextAfterDeleteAny(segs, idx) ==
    IF idx < Len(segs) THEN segs[idx + 1].segment_id
    ELSE IF idx > 1 THEN segs[idx - 1].segment_id
    ELSE Null

\* soft variant: the segment selected after the one at idx was marked: the
\* next one not marked, else the previous one not marked, else none
NextAfterDelete(segs, idx) ==
    LET after == { i \in (idx + 1)..Len(segs) : ~segs[i].markedForDeletion }
        before == { i \in 1..(idx - 1) : ~segs[i].markedForDeletion }
    IN  IF after # {} THEN segs[CHOOSE i \in after : \A j \in after : i <= j].segment_id
        ELSE IF before # {} THEN segs[CHOOSE i \in before : \A j \in before : i >= j].segment_id
        ELSE Null

\* hard variant: the segment selected after the one at idx was removed
NextAfterRemove(segs, idx) ==
    IF Len(segs) > 0 THEN segs[Min(idx, Len(segs))].segment_id ELSE Null

\* Delete / Backspace key while the selected segment is already marked for
\* deletion (soft variant): the handler returns at once
deleteSelectedSegmentMarked ==
    /\ booted
    /\ Tick
    /\ variant = "soft"
    /\ selectedSegmentId # Null
    /\ HasSegment(segments, selectedSegmentId)
    /\ segments[FindIndex(segments, selectedSegmentId)].markedForDeletion
    /\ lastOp' = [op |-> "deleteSelectedSegmentMarked", id |-> selectedSegmentId]
    /\ UNCHANGED <<variant, booted, chunks, segments, currentChunkId, currentChunk,
                   selectedSegmentId, undoStack, deletedSegments, hasUnsavedChanges,
                   regions, table, undoBtnDisabled, deleteBtnDisabled, status, server,
                   puts, runs, loads, shadow>>

\* Delete / Backspace key or deleteBtn click
deleteSelectedSegment ==
    /\ booted
    /\ Tick
    /\ selectedSegmentId # Null
    /\ HasSegment(segments, selectedSegmentId)
    /\ Len(undoStack) < MaxUndo
    /\ LET segmentId == selectedSegmentId
           idx == FindIndex(segments, segmentId)
       IN  /\ IF variant = "soft"
              THEN /\ ~segments[idx].markedForDeletion
                   /\ undoStack' = Append(undoStack, [type |-> "delete",
                                                      segmentId |-> segmentId])
                   /\ segments' = [segments EXCEPT ![idx].markedForDeletion = TRUE]
                   /\ selectedSegmentId' = NextAfterDelete(segments', idx)
                   /\ regions' =
                        IF selectedSegmentId' # Null
                        THEN HighlightRegion(SetColor(regions, segmentId, Red), segments',
                                             selectedSegmentId')
                        ELSE SetColor(regions, segmentId, Red)
                   /\ table' = SetCell(table, segmentId, "deleted", TRUE)
              ELSE /\ undoStack' = Append(undoStack, [type |-> "delete",
                                                      segment |-> segments[idx],
                                                      index |-> idx])
                   /\ segments' = RemoveAt(segments, idx)
                   /\ table' = RenderTable(segments')
                   /\ selectedSegmentId' = NextAfterRemove(segments', idx)
                   /\ regions' =
                        IF selectedSegmentId' # Null
                        THEN HighlightRegion(RemoveRegions(regions, {segmentId}), segments',
                                             selectedSegmentId')
                        ELSE RemoveRegions(regions, {segmentId})
           /\ deletedSegments' = Append(deletedSegments, segmentId)
           /\ deleteBtnDisabled' = IF selectedSegmentId' = Null THEN TRUE
                                   ELSE DeleteBtnAfterSelect(segments', selectedSegmentId')
           /\ lastOp' = [op |-> "deleteSelectedSegment", id |-> segmentId]
    /\ shadow' = Append(shadow, [pre |-> segments, ok |-> TRUE])
    /\ undoBtnDisabled' = FALSE
    /\ hasUnsavedChanges' = TRUE
    /\ runs' = Disturb(runs)
    /\ UNCHANGED <<variant, booted, chunks, currentChunkId, currentChunk, status,
                   server, puts, loads>>

\* -------------------------------------------------------------------- undo
EntryKind(entry) ==
    IF IsDelete(entry) THEN "delete"
    ELSE IF "oldStart" \in DOMAIN entry THEN "drag"
    ELSE IF "oldText" \in DOMAIN entry THEN "text"
    ELSE "time"

\* the id an undo entry is about
EntryId(entry) == IF "segment" \in DOMAIN entry THEN entry.segment.segment_id
                  ELSE entry.segmentId

\* the updates object undo builds for an edit entry
UndoUpdates(entry) ==
    [f \in (IF "oldStart" \in DOMAIN entry THEN {"start_sec", "end_sec"} ELSE {})
           \cup (IF "oldText" \in DOMAIN entry THEN {"text"} ELSE {})
       |-> IF f = "start_sec" THEN entry.oldStart
           ELSE IF f = "end_sec" THEN entry.oldEnd
           ELSE entry.oldText]

\* a slip: the end of a dragged segment is not written back
UndoRestoreNoEnd(seg, entry) ==
    [f \in DOMAIN seg |-> IF f \in DOMAIN UndoUpdates(entry) \ {"end_sec"}
                          THEN UndoUpdates(entry)[f] ELSE seg[f]]

\* the segment after undo wrote the entry's old values back
UndoRestore(seg, entry) ==
    [f \in DOMAIN seg |-> IF f \in DOMAIN UndoUpdates(entry) THEN UndoUpdates(entry)[f]
                          ELSE seg[f]]

\* deletedSegments after indexOf + splice of id
Unpend(pending, id) ==
    IF IndexOf(pending, id) # Null THEN RemoveAt(pending, IndexOf(pending, id))
    ELSE pending

\* a slip: the removed segment is pushed back at the end
ReinsertAtEnd(segs, entry) == Append(segs, entry.segment)

\* hard variant: splice the stored copy back at the stored index
Reinsert(segs, entry) == InsertAt(segs, entry.index, entry.segment)

\* every segment of the store belongs to the chunk that is current
Resident(segs, chunkId) == \A i \in 1..Len(segs) : segs[i].chunk_id = chunkId

\* a slip: the early return forgets the button
UndoMissKeepsButton(seen) ==
    /\ lastOp' = seen @@ [hit |-> FALSE, sent |-> <<>>]
    /\ UNCHANGED <<table, segments, deletedSegments, selectedSegmentId, deleteBtnDisabled,
                   regions, status, puts, undoBtnDisabled>>

\* undo of an edit entry whose segment is not in the store: the button is
\* recomputed and undo returns
UndoMiss(seen) ==
    /\ undoBtnDisabled' = (undoStack' = <<>>)
    /\ lastOp' = seen @@ [hit |-> FALSE, sent |-> <<>>]
    /\ UNCHANGED <<table, segments, deletedSegments, selectedSegmentId, deleteBtnDisabled,
                   regions, status, puts>>

\* undoBtn click or Ctrl/Cmd+Z
undo ==
    /\ booted
    /\ TickUndo
    /\ undoStack # <<>>
    /\ LET lastChange == undoStack[Len(undoStack)]
           top == shadow[Len(shadow)]
           id == EntryId(lastChange)
           idx == FindIndex(segments, id)
           seen == [op |-> "undo", kind |-> EntryKind(lastChange), id |-> id,
                    ok |-> top.ok, pre |-> top.pre,
                    issued |-> UNION { { runs[r].issued[k] : k \in 1..Len(runs[r].issued) }
                                       : r \in 1..Len(runs) },
                    resident |-> loads = <<>> /\ Resident(segments, currentChunkId)]
       IN  /\ undoStack' = SubSeq(undoStack, 1, Len(undoStack) - 1)
           /\ shadow' = SubSeq(shadow, 1, Len(shadow) - 1)
           /\ IF IsDelete(lastChange) /\ variant = "soft"
              THEN /\ IF idx # Null
                      THEN /\ segments' = [segments EXCEPT ![idx].markedForDeletion = FALSE]
                           /\ deletedSegments' = Unpend(deletedSegments, id)
                           /\ selectedSegmentId' = id
                           /\ deleteBtnDisabled' = DeleteBtnAfterSelect(segments', id)
                           /\ regions' =
                                HighlightRegion(SetColor(regions, id, BaseColor(segments', id)),
                                                segments', id)
                           /\ table' = SetCell(table, id, "deleted", FALSE)
                      ELSE UNCHANGED <<segments, deletedSegments, selectedSegmentId,
                                       deleteBtnDisabled, regions, table>>
                   /\ undoBtnDisabled' = (undoStack' = <<>>)
                   /\ lastOp' = seen @@ [hit |-> idx # Null, sent |-> <<>>]
                   /\ UNCHANGED <<status, puts>>
              ELSE IF IsDelete(lastChange)
              THEN /\ deletedSegments' = Unpend(deletedSegments, id)
                   /\ segments' = Reinsert(segments, lastChange)
                   /\ table' = RenderTable(segments')
                   /\ regions' = HighlightRegion(
                                     CreateRegions(segments', currentChunk, selectedSegmentId),
                                     segments', id)
                   /\ selectedSegmentId' = id
                   /\ deleteBtnDisabled' = DeleteBtnAfterSelect(segments', id)
                   /\ undoBtnDisabled' = (undoStack' = <<>>)
                   /\ lastOp' = seen @@ [hit |-> TRUE, sent |-> <<>>]
                   /\ UNCHANGED <<status, puts>>
              ELSE IF idx = Null
              THEN UndoMiss(seen)
              ELSE /\ Len(puts) < MaxPuts
                   /\ segments' = [segments EXCEPT ![idx] = UndoRestore(@, lastChange)]
                   /\ table' = RenderTable(segments')
                   /\ regions' = CreateRegions(segments', currentChunk, selectedSegmentId)
                   /\ deleteBtnDisabled' =
                        IF selectedSegmentId # Null
                        THEN DeleteBtnAfterSelect(segments', selectedSegmentId)
                        ELSE deleteBtnDisabled
                   /\ SaveSegmentUpdate(id, UndoUpdates(lastChange), "undo")
                   /\ lastOp' = seen @@ [hit |-> TRUE, sent |-> <<UndoUpdates(lastChange)>>]
                   /\ UNCHANGED <<deletedSegments, selectedSegmentId, undoBtnDisabled>>
    /\ runs' = Disturb(runs)
    /\ UNCHANGED <<variant, booted, chunks, currentChunkId, currentChunk,
                   hasUnsavedChanges, server, loads>>

\* ------------------------------------------------- saveAll, finalizeDeletes
\* a run that starts: the first DELETE is sent before the first await
NewRun(kind, arr, first) ==
    [kind |-> kind, arr |-> arr, live |-> kind = "saveAll", i |-> 1,
     issued |-> <<first>>, quiet |-> TRUE,
     start |-> [pending |-> deletedSegments, undo |-> undoStack,
                flag |-> hasUnsavedChanges, segs |-> segments]]

\* the array a run's for-of loop walks: saveAll walks state.deletedSegments
\* itself for as long as no completion has replaced that array; finalizeDeletes
\* walks the list it filtered out of the store when it started
RunArray(run) == IF run.live THEN deletedSegments ELSE run.arr

\* state.deletedSegments = []: runs still walking the old array keep it
Detach(rs) ==
    [i \in 1..Len(rs) |->
        IF rs[i].live THEN [rs[i] EXCEPT !.live = FALSE, !.arr = deletedSegments]
        ELSE rs[i]]

\* ids of the segments state.segments.filter(s => s.markedForDeletion) keeps
RECURSIVE MarkedIds(_)
MarkedIds(segs) ==
    IF segs = <<>> THEN <<>>
    ELSE (IF Head(segs).markedForDeletion THEN <<Head(segs).segment_id>> ELSE <<>>)
         \o MarkedIds(Tail(segs))

\* state.segments.filter(s => !s.markedForDeletion)
RECURSIVE Unmarked(_)
Unmarked(segs) ==
    IF segs = <<>> THEN <<>>
    ELSE (IF Head(segs).markedForDeletion THEN <<>> ELSE <<Head(segs)>>)
         \o Unmarked(Tail(segs))

\* a slip: the status of the other branch
AllSavedWrong == Status("Saving deletions...", "saving")

\* what saveAll reports when nothing is pending
AllSaved == Status("All changes saved", "saved")

\* saveBtn click
saveAll ==
    /\ booted
    /\ Tick
    /\ IF Len(deletedSegments) = 0
       THEN /\ status' = AllSaved
            /\ hasUnsavedChanges' = FALSE
            /\ runs' = Disturb(runs)
       ELSE /\ Len(runs) < MaxRuns
            /\ status' = Status("Saving deletions...", "saving")
            /\ runs' = Append(Disturb(runs), NewRun("saveAll", <<>>, deletedSegments[1]))
            /\ UNCHANGED hasUnsavedChanges
    /\ shadow' = Invalidate(shadow)
    /\ lastOp' = [op |-> "saveAll", sent |-> Len(runs') - Len(runs),
                  before |-> [segments |-> segments, undoStack |-> undoStack,
                              deletedSegments |-> deletedSegments, puts |-> puts]]
    /\ UNCHANGED <<table, variant, booted, chunks, segments, currentChunkId, currentChunk,
                   selectedSegmentId, undoStack, deletedSegments, regions,
                   undoBtnDisabled, deleteBtnDisabled, server, puts, loads>>

\* finalizeBtn click; soft variant only
finalizeDeletes ==
    /\ booted
    /\ Tick
    /\ variant = "soft"
    /\ IF MarkedIds(segments) = <<>>
       THEN /\ status' = Status("No segments to finalize", "saved")
            /\ runs' = Disturb(runs)
       ELSE /\ Len(runs) < MaxRuns
            /\ status' = Status("Finalizing deletions...", "saving")
            /\ runs' = Append(Disturb(runs),
                              NewRun("finalize", MarkedIds(segments),
                                     MarkedIds(segments)[1]))
    /\ shadow' = Invalidate(shadow)
    /\ lastOp' = Other
    /\ UNCHANGED <<table, variant, booted, chunks, segments, currentChunkId, currentChunk,
                   selectedSegmentId, undoStack, deletedSegments, hasUnsavedChanges,
                   regions, undoBtnDisabled, deleteBtnDisabled, server, puts, loads>>

\* what a run has seen, for the history
RunSeen(run, ok, done) ==
    [op |-> "deleteSegmentDone", kind |-> run.kind, ok |-> ok, done |-> done,
     issued |-> run.issued, quiet |-> run.quiet, start |-> run.start,
     before |-> [undoStack |-> undoStack, deletedSegments |-> deletedSegments,
                 segments |-> segments, hasUnsavedChanges |-> hasUnsavedChanges,
                 runs |-> Len(runs)]]

\* a slip: the catch block also drops what is pending
RunCatchClears(r) ==
    /\ status' = Status("Save failed", "error")
    /\ runs' = RemoveAt(runs, r)
    /\ shadow' = Invalidate(shadow)
    /\ deletedSegments' = <<>>
    /\ hasUnsavedChanges' = FALSE
    /\ UNCHANGED <<table, server, segments, regions, undoStack, undoBtnDisabled>>

\* a slip: the catch block also clears the flag
RunCatchClearsFlag(r) ==
    /\ status' = Status("Save failed", "error")
    /\ runs' = RemoveAt(runs, r)
    /\ shadow' = Invalidate(shadow)
    /\ hasUnsavedChanges' = FALSE
    /\ UNCHANGED <<table, server, segments, regions, deletedSegments, undoStack,
                   undoBtnDisabled>>

\* the catch block of a run: the status, and the run is over
RunCatch(r) ==
    /\ status' = IF runs[r].kind = "saveAll" THEN Status("Save failed", "error")
                 ELSE Status("Failed to delete segments", "error")
    /\ runs' = RemoveAt(runs, r)
    /\ shadow' = Invalidate(shadow)
    /\ UNCHANGED <<table, server, segments, regions, deletedSegments, undoStack,
                   undoBtnDisabled, hasUnsavedChanges>>

\* the for-of loop of a run takes the next id of its array and sends its DELETE
RunNext(r) ==
    /\ runs' = [runs EXCEPT ![r].i = @ + 1,
                            ![r].issued = Append(@, RunArray(runs[r])[runs[r].i + 1])]
    /\ shadow' = Invalidate(shadow)
    /\ UNCHANGED <<table, status, segments, regions, deletedSegments, undoStack,
                   undoBtnDisabled, hasUnsavedChanges>>

\* the loop of a run is over: what follows it inside the try block
\* a slip: only the ids the batch has sent are taken off the pending list
PendingKeepsUnsent(pending, run) ==
    SelectSeq(pending, LAMBDA id : id \notin Range(run.issued))

\* state.deletedSegments = [] once the loop of a batch has ended
PendingAfterBatch(pending, run) == <<>>

RunComplete(r) ==
    /\ IF runs[r].kind = "finalize"
       THEN /\ segments' = Unmarked(segments)
            /\ table' = RenderTable(segments')
            /\ regions' = RemoveRegions(regions, Range(runs[r].arr))
            /\ status' = Status("Deleted n segments", "saved")
       ELSE /\ status' = Status("Saved (n segments deleted)", "saved")
            /\ UNCHANGED <<segments, regions, table>>
    /\ deletedSegments' = PendingAfterBatch(deletedSegments, runs[r])
    /\ undoStack' = PurgeDeletes(undoStack)
    /\ shadow' = Invalidate(PurgeShadow(undoStack, shadow))
    /\ undoBtnDisabled' = (undoStack' = <<>>)
    /\ hasUnsavedChanges' = FALSE
    /\ runs' = Disturb(Detach(RemoveAt(runs, r)))

\* the DELETE run r awaits is answered (ok) or rejects: the loop goes on to the
\* next id, or the run completes, or the catch block ends it
deleteSegmentDone(r, ok) ==
    /\ UNCHANGED <<ops, streak>>
    /\ r \in 1..Len(runs)
    /\ LET run == runs[r]
           more == run.i + 1 <= Len(RunArray(run))
       IN  IF ~ok
           THEN /\ RunCatch(r)
                /\ lastOp' = RunSeen(run, FALSE, TRUE)
           ELSE /\ server' = ServerDelete(server, run.issued[Len(run.issued)])
                /\ IF more THEN RunNext(r) ELSE RunComplete(r)
                /\ lastOp' = RunSeen(run, TRUE, ~more)
    /\ UNCHANGED <<variant, booted, chunks, currentChunkId, currentChunk,
                   selectedSegmentId, deleteBtnDisabled, puts, loads>>

\* the timeout of setStatus fires, 3000 ms after a status of type 'saved'
statusTimeout ==
    /\ Timed
    /\ status.timers > 0
    /\ status' = [message |-> "", type |-> "", timers |-> status.timers - 1]
    /\ lastOp' = [op |-> "statusTimeout"]
    /\ UNCHANGED <<variant, booted, chunks, segments, currentChunkId, currentChunk,
                   selectedSegmentId, undoStack, deletedSegments, hasUnsavedChanges,
                   regions, table, undoBtnDisabled, deleteBtnDisabled, server, puts,
                   runs, loads, ops, streak, shadow>>

\* ------------------------------------------------------------ specification
Next ==
    \/ \E n \in {0, NumChunks}, ok \in BOOLEAN : init(n, ok)
    \/ \E d \in {-1, 1} : loadChunk(d)
    \/ \E i \in 1..MaxLoads, ok \in BOOLEAN : loadChunkSegments(i, ok)
    \/ \E i \in 1..MaxLoads, ok \in BOOLEAN : loadChunkAudio(i, ok)
    \/ \E id \in SegIds : selectSegment(RowClick(id), DefaultView)
    \/ \E id \in SegIds : selectSegment(RegionClick(id), DefaultView)
    \/ \E d \in {-1, 1} : navigateSegment(d)
    \/ \E id \in SegIds, drag \in DragInputs : handleRegionUpdate(IdToString(id), drag)
    \/ \E id \in SegIds, live \in DragInputs : updateTableRowLive(IdToString(id), live)
    \/ \E id \in SegIds, t \in TextInputs, e \in Keys : startTextEdit(id, t, e)
    \/ \E id \in SegIds, isStart \in BOOLEAN, t \in TimeInputs, save \in BOOLEAN :
            startTimeEdit(id, isStart, t, save)
    \/ \E i \in 1..MaxPuts, ok \in BOOLEAN : saveSegmentUpdateDone(i, ok)
    \/ deleteSelectedSegment
    \/ deleteSelectedSegmentMarked
    \/ undo
    \/ saveAll
    \/ finalizeDeletes
    \/ \E r \in 1..MaxRuns, ok \in BOOLEAN : deleteSegmentDone(r, ok)

Spec == Init /\ [][Next]_vars

\* the hard variant alone, with longer sessions
InitHard == variant = "hard" /\ Loaded(MaxHardOps)

NextHard ==
    \/ \E n \in {0, NumChunks}, ok \in BOOLEAN : init(n, ok)
    \/ \E d \in {-1, 1} : loadChunk(d)
    \/ \E i \in 1..MaxLoads, ok \in BOOLEAN : loadChunkSegments(i, ok)
    \/ \E i \in 1..MaxLoads, ok \in BOOLEAN : loadChunkAudio(i, ok)
    \/ \E id \in SegIds : selectSegment(RowClick(id), DefaultView)
    \/ \E id \in SegIds : selectSegment(RegionClick(id), DefaultView)
    \/ \E d \in {-1, 1} : navigateSegment(d)
    \/ \E id \in SegIds, drag \in DragInputs : handleRegionUpdate(IdToString(id), drag)
    \/ \E id \in SegIds, t \in TextInputs, e \in Keys : startTextEdit(id, t, e)
    \/ \E i \in 1..MaxPuts, ok \in BOOLEAN : saveSegmentUpdateDone(i, ok)
    \/ deleteSelectedSegment
    \/ undo
    \/ saveAll
    \/ \E r \in 1..MaxRuns, ok \in BOOLEAN : deleteSegmentDone(r, ok)

SpecHard == InitHard /\ [][NextHard]_vars

\* sessions of selecting, deleting, undoing and changing chunk, on a network
\* that does not fail: long enough to come back to a chunk left earlier
InitReload == variant \in {"soft", "hard"} /\ Loaded(MaxReloadOps)

NextReload ==
    \/ init(NumChunks, TRUE)
    \/ \E d \in {-1, 1} : loadChunk(d)
    \/ \E i \in 1..MaxLoads : loadChunkSegments(i, TRUE)
    \/ \E i \in 1..MaxLoads : loadChunkAudio(i, TRUE)
    \/ \E id \in SegIds : selectSegment(RowClick(id), DefaultView)
    \/ \E id \in SegIds : selectSegment(RegionClick(id), DefaultView)
    \/ deleteSelectedSegment
    \/ undo

SpecReload == InitReload /\ [][NextReload]_vars

\* sessions of chunk changes where a second loadChunk may start before the
\* first has ended, on a network that answers in any order and may fail
InitLoads == variant \in {"soft", "hard"} /\ Loaded(MaxLoadOps)

NextLoads ==
    \/ \E ok \in BOOLEAN : init(NumChunks, ok)
    \/ \E d \in {-1, 1} : LoadChunk(d, MaxOverlap)
    \/ \E i \in 1..MaxOverlap, ok \in BOOLEAN : loadChunkSegments(i, ok)
    \/ \E i \in 1..MaxOverlap, ok \in BOOLEAN : loadChunkAudio(i, ok)
    \/ \E id \in SegIds : selectSegment(RowClick(id), DefaultView)

SpecLoads == InitLoads /\ [][NextLoads]_vars

\* sessions of text edits where a second PUT may be sent before the first is
\* answered, on a network that answers in any order and may fail
InitPuts == variant \in {"soft", "hard"} /\ Loaded(MaxPutOps)

NextPuts ==
    \/ init(NumChunks, TRUE)
    \/ \E i \in 1..MaxLoads : loadChunkSegments(i, TRUE)
    \/ \E i \in 1..MaxLoads : loadChunkAudio(i, TRUE)
    \/ \E id \in SegIds, t \in TextInputs, e \in Endings :
          StartTextEdit(id, t, e, MaxInFlight)
    \/ \E i \in 1..MaxInFlight, ok \in BOOLEAN : saveSegmentUpdateDone(i, ok)

SpecPuts == InitPuts /\ [][NextPuts]_vars

\* sessions of text edits on a network that may fail, with the timers of the
\* status line firing at any moment after they were set
InitStatus ==
    variant \in {"soft", "hard"} /\ LoadedWith(MaxStatusOps, InitialSegments, TRUE)

NextStatus ==
    \/ init(NumChunks, TRUE)
    \/ \E i \in 1..MaxLoads : loadChunkSegments(i, TRUE)
    \/ \E i \in 1..MaxLoads : loadChunkAudio(i, TRUE)
    \/ \E id \in SegIds, t \in TextInputs, e \in Keys : startTextEdit(id, t, e)
    \/ \E i \in 1..MaxPuts, ok \in BOOLEAN : saveSegmentUpdateDone(i, ok)
    \/ saveAll
    \/ statusTimeout

SpecStatus == InitStatus /\ [][NextStatus]_vars

\* sessions of chunk changes, drags and undos over backend data with or
\* without segments that straddle a chunk boundary
InitRegions ==
    /\ variant \in {"soft", "hard"}
    /\ \E rows \in {InitialSegments, StraddlingSegments} : LoadedWith(MaxRegionOps, rows, FALSE)

NextRegions ==
    \/ init(NumChunks, TRUE)
    \/ \E d \in {-1, 1} : loadChunk(d)
    \/ \E i \in 1..MaxLoads : loadChunkSegments(i, TRUE)
    \/ \E i \in 1..MaxLoads, ok \in BOOLEAN : loadChunkAudio(i, ok)
    \/ \E id \in SegIds : selectSegment(RegionClick(id), DefaultView)
    \/ \E id \in SegIds, drag \in DragInputs : handleRegionUpdate(IdToString(id), drag)
    \/ \E i \in 1..MaxPuts, ok \in BOOLEAN : saveSegmentUpdateDone(i, ok)
    \/ deleteSelectedSegment
    \/ undo

SpecRegions == InitRegions /\ [][NextRegions]_vars

\* sessions of dragging and selecting, with pages of several widths and audio
\* of several lengths
Widths == {300, 1000}
Durations == {1000, ChunkDuration}
ZoomDrags == { <<0, 3000>>, <<1000, 1100>>, <<0, 1000>> }

InitZoom == variant \in {"soft", "hard"} /\ Loaded(MaxZoomOps)

NextZoom ==
    \/ init(NumChunks, TRUE)
    \/ \E i \in 1..MaxLoads : loadChunkSegments(i, TRUE)
    \/ \E i \in 1..MaxLoads : loadChunkAudio(i, TRUE)
    \/ \E id \in SegIds, w \in Widths, d \in Durations :
          selectSegment(RowClick(id), View(w, d))
    \/ \E id \in SegIds, w \in Widths, d \in Durations :
          selectSegment(RegionClick(id), View(w, d))
    \/ \E id \in SegIds, drag \in ZoomDrags : handleRegionUpdate(IdToString(id), drag)
    \/ \E i \in 1..MaxPuts : saveSegmentUpdateDone(i, TRUE)

SpecZoom == InitZoom /\ [][NextZoom]_vars

\* ================================================================== claims

\* the fields a drag or a text edit writes, per segment of the store
EditFields(segs) ==
    [i \in 1..Len(segs) |-> [segment_id |-> segs[i].segment_id,
                             start_sec |-> segs[i].start_sec,
                             end_sec |-> segs[i].end_sec, text |-> segs[i].text]]

UndidEdit == lastOp.op = "undo" /\ lastOp.kind \in {"drag", "text"}

\* C1: when an undo pops the entry of a region drag or a text edit, and no
\* chunk load, save or finalize happened since that edit, every segment's
\* start_sec, end_sec and text are what they were just before the edit; by
\* induction k undos after k edits give back the values before the first edit.
C1_EditUndoRoundTrip ==
    (UndidEdit /\ lastOp.ok) => EditFields(segments) = EditFields(lastOp.pre)

\* two edits were undone in a row, the second back to the store before it
C1_Witness ==
    /\ UndidEdit /\ lastOp.ok /\ lastOp.hit /\ streak = 2
    /\ puts # <<>>
    /\ EditFields(segments) = EditFields(lastOp.pre)

\* the ids of a store, in its order
Ids(segs) == [i \in 1..Len(segs) |-> segs[i].segment_id]

UndidDelete == lastOp.op = "undo" /\ lastOp.kind = "delete"

\* C2: soft variant: when an undo pops the delete entry of a segment that is
\* in the store, and no load, save or finalize happened since that delete,
\* the segment is no longer marked for deletion, its id is no longer in the
\* pending list, and the store holds the same segments in the same order.
C2_SoftDeleteUndo ==
    (UndidDelete /\ variant = "soft" /\ lastOp.hit /\ lastOp.ok) =>
        /\ ~segments[FindIndex(segments, lastOp.id)].markedForDeletion
        /\ IndexOf(deletedSegments, lastOp.id) = Null
        /\ Ids(segments) = Ids(lastOp.pre)

\* C3: hard variant: when an undo pops a delete entry, and no load or save
\* happened since that delete, the store is again the sequence it was just
\* before that delete; by induction k undos after k deletes give back the
\* sequence before the first delete, element for element.
C3_HardDeleteUndo ==
    (UndidDelete /\ variant = "hard" /\ lastOp.ok) => segments = lastOp.pre

\* two deletes were undone in a row, and the whole chunk is back
C3_Witness ==
    /\ UndidDelete /\ variant = "hard" /\ lastOp.ok /\ streak = 2
    /\ Len(segments) = 2
    /\ segments = lastOp.pre

\* the entries of an undo stack that are not deletions, in their order
EditEntries(stack) == SelectSeq(stack, LAMBDA e : EntryKind(e) # "delete")

SavedAll ==
    /\ lastOp.op = "deleteSegmentDone" /\ lastOp.kind = "saveAll"
    /\ lastOp.ok /\ lastOp.done

\* what every successful end of saveAll leaves behind
SavedAllState ==
    /\ deletedSegments = <<>>
    /\ \A i \in 1..Len(undoStack) : EntryKind(undoStack[i]) # "delete"
    /\ undoStack = EditEntries(lastOp.before.undoStack)
    /\ ~hasUnsavedChanges

\* C4 as stated: when saveAll ends with every DELETE answered, one DELETE was
\* sent per id that was pending when it was called, in that order, the pending
\* list is empty, the undo stack has lost its delete entries and kept the
\* others in order, and the unsaved flag is false.
C4_SaveAllSuccess == SavedAll => (lastOp.issued = lastOp.start.pending /\ SavedAllState)

\* C4 as the code has it: the end state is as stated; the DELETEs sent are the
\* ids pending at the call, in order, when the user neither deleted nor undid
\* anything while the requests were awaited.
C4_SaveAllSuccessQuiet ==
    SavedAll => /\ SavedAllState
                /\ lastOp.quiet => lastOp.issued = lastOp.start.pending

\* a save ended that purged a delete entry and kept an edit entry
C4_Witness ==
    /\ SavedAll /\ lastOp.quiet /\ SavedAllState
    /\ lastOp.issued = lastOp.start.pending
    /\ undoStack # <<>>
    /\ Len(undoStack) < Len(lastOp.before.undoStack)

BatchFailed == lastOp.op = "deleteSegmentDone" /\ ~lastOp.ok

\* the batch is over: nothing more of it will be sent
BatchOver == Len(runs) = lastOp.before.runs - 1

\* C5 as stated: when a DELETE of saveAll or finalizeDeletes fails, the batch
\* stops there and the pending list, the undo stack and the unsaved flag (and
\* for finalizeDeletes the store) are what they were when the batch was called.
C5_FailureAborts ==
    BatchFailed =>
        /\ BatchOver
        /\ deletedSegments = lastOp.start.pending
        /\ undoStack = lastOp.start.undo
        /\ hasUnsavedChanges = lastOp.start.flag
        /\ lastOp.kind = "finalize" => segments = lastOp.start.segs

\* C5 as the code has it: the failure stops the batch and itself changes
\* neither the pending list, the undo stack, the flag nor the store; they are
\* what they were at the call when the user did nothing in between.
C5_FailureChangesNothing ==
    BatchFailed =>
        /\ BatchOver
        /\ deletedSegments = lastOp.before.deletedSegments
        /\ undoStack = lastOp.before.undoStack
        /\ hasUnsavedChanges = lastOp.before.hasUnsavedChanges
        /\ segments = lastOp.before.segments
        /\ lastOp.quiet =>
              /\ deletedSegments = lastOp.start.pending
              /\ undoStack = lastOp.start.undo
              /\ hasUnsavedChanges = lastOp.start.flag
              /\ segments = lastOp.start.segs

\* a DELETE failed while an id of the batch had not been sent yet
C5_Witness ==
    /\ BatchFailed /\ lastOp.quiet /\ BatchOver
    /\ Len(lastOp.issued) < Len(deletedSegments)
    /\ deletedSegments = lastOp.start.pending

SavedNothing == lastOp.op = "saveAll" /\ lastOp.before.deletedSegments = <<>>

\* C6: saveAll called with nothing pending sends no request, reports 'All
\* changes saved' at once, and leaves store, undo stack and pending list alone.
C6_SaveAllEmpty ==
    SavedNothing =>
        /\ lastOp.sent = 0
        /\ puts = lastOp.before.puts
        /\ status.message = "All changes saved"
        /\ status.type = "saved"
        /\ segments = lastOp.before.segments
        /\ undoStack = lastOp.before.undoStack
        /\ deletedSegments = <<>>

\* saveAll was called with nothing pending and edits on the undo stack
C6_Witness ==
    /\ SavedNothing /\ undoStack # <<>>
    /\ status.message = "All changes saved"
    /\ lastOp.sent = 0

\* C7: an undo never brings back (hard) or unmarks (soft) a segment whose
\* DELETE has been sent by a batch, a batch still awaiting answers included.
C7_FinalDeletion == (UndidDelete /\ lastOp.hit) => lastOp.id \notin lastOp.issued

\* C8: a region drag sends one PUT with the segment's new start and end; an
\* undo that pops an edit entry (drag, text or table time edit) of a segment in
\* the store sends one PUT whose body is not empty and carries the values the
\* undo put back.
C8_EditsPersisted ==
    /\ lastOp.op = "handleRegionUpdate" =>
          /\ puts # <<>>
          /\ puts[Len(puts)].segmentId = lastOp.id
          /\ puts[Len(puts)].updates =
                 [start_sec |-> lastOp.start_sec, end_sec |-> lastOp.end_sec]
    /\ (lastOp.op = "undo" /\ lastOp.kind # "delete" /\ lastOp.hit) =>
          /\ Len(lastOp.sent) = 1
          /\ DOMAIN lastOp.sent[1] # {}
          /\ \A f \in DOMAIN lastOp.sent[1] :
                 lastOp.sent[1][f] = segments[FindIndex(segments, lastOp.id)][f]

\* C9: a chunk load that fails (segment fetch rejected, or no chunk of that id)
\* leaves currentChunkId, currentChunk and the store as they were and shows an
\* error status.
C9_FailedLoad ==
    /\ (lastOp.op = "loadChunkSegments" /\ ~lastOp.ok) =>
          /\ currentChunkId = lastOp.before.currentChunkId
          /\ currentChunk = lastOp.before.currentChunk
          /\ segments = lastOp.before.segments
          /\ status.type = "error"
    /\ (lastOp.op = "init" /\ lastOp.ok /\ lastOp.chunks = 0) =>
          /\ currentChunk = NullChunk
          /\ segments = <<>>
          /\ status.type = "error"

\* C10: with no load in flight every segment of the store belongs to the
\* current chunk; in particular an undo called in such a state leaves it so.
C10_SingleChunk ==
    (lastOp.op = "undo" /\ lastOp.resident) => Resident(segments, currentChunkId)

\* the handlers that change the store: a committed drag, text edit or table
\* time edit, and a delete
Mutated ==
    lastOp.op \in {"handleRegionUpdate", "startTextEdit", "startTimeEdit",
                   "deleteSelectedSegment"}

\* C11: right after a committed region drag, text edit or table time edit, or
\* a delete, hasUnsavedChanges is true.
C11_MutationSetsFlag == Mutated => hasUnsavedChanges

\* a run ended with every DELETE answered, or saveAll found nothing pending
SaveSucceeded(op) ==
    \/ op.op = "saveAll" /\ op.sent = 0
    \/ op.op = "deleteSegmentDone" /\ op.ok /\ op.done

\* C12: hasUnsavedChanges goes from true to false only in the step that ends a
\* saveAll or finalizeDeletes run none of whose DELETEs failed; no other
\* handler, and no failed save, clears it.
C12_FlagClearedBySave ==
    [][(hasUnsavedChanges /\ ~hasUnsavedChanges') => SaveSucceeded(lastOp')]_vars

\* a batch whose DELETEs were all answered has just cleared the flag
C12_Witness ==
    /\ lastOp.op = "deleteSegmentDone" /\ lastOp.ok /\ lastOp.done
    /\ lastOp.before.hasUnsavedChanges
    /\ ~hasUnsavedChanges

\* the handlers that send a PUT
SendsPut(op) ==
    op.op \in {"handleRegionUpdate", "startTextEdit", "startTimeEdit", "undo"}

\* the fields of segment id that the backend holds differ from the store's
Unsaved(id) ==
    LET seg == segments[FindIndex(segments, id)]
    IN  \E f \in {"start_sec", "end_sec", "text"} : seg[f] # server[id].row[f]

\* C13: the step in which a PUT rejects leaves the store and the undo stack as
\* they are, sets an error status and sends nothing; a PUT is only ever sent
\* by an edit or an undo of the user, so the failed one is not retried.
C13_FailedSaveStays ==
    [][/\ (lastOp'.op = "saveSegmentUpdateDone" /\ ~lastOp'.ok) =>
              /\ segments' = segments
              /\ undoStack' = undoStack
              /\ status'.type = "error"
              /\ Len(puts') = Len(puts) - 1
       /\ Len(puts') > Len(puts) => SendsPut(lastOp')]_vars

\* the PUT of an edit was rejected: the edit is in the store and not on the
\* backend, its entry is on the stack, and no request is in flight
C13_Witness ==
    /\ lastOp.op = "saveSegmentUpdateDone" /\ ~lastOp.ok /\ lastOp.caller = "edit"
    /\ undoStack # <<>> /\ ~IsDelete(undoStack[Len(undoStack)])
    /\ HasSegment(segments, EntryId(undoStack[Len(undoStack)]))
    /\ Unsaved(EntryId(undoStack[Len(undoStack)]))
    /\ status.type = "error"
    /\ puts = <<>>

FEq(a, b) == a[1] * b[2] = b[1] * a[2]
FLeq(a, b) == a[1] * b[2] <= b[1] * a[2]

\* selectSegment has just zoomed to a segment of positive span
Zoomed == lastOp.op = "selectSegment" /\ lastOp.zoom # <<>>

\* what the zoom was computed from
ZoomSpan ==
    LET seg == segments[FindIndex(segments, selectedSegmentId)]
    IN  seg.end_sec - seg.start_sec
FitAllZoom == <<lastOp.view.width, lastOp.view.duration>>
WantedZoom == <<lastOp.view.width, 2 * ZoomSpan>>
ZoomCap == <<500, 1000>>

\* C14 as stated: the zoom level zoomToSegment applies lies between fitAllZoom
\* = width / totalDuration and 500, and is min(500, max(fitAllZoom, width /
\* (span / 0.5))).
C14_ZoomClamp ==
    (Zoomed /\ ZoomSpan > 0) =>
        /\ FLeq(FitAllZoom, lastOp.zoom)
        /\ FLeq(lastOp.zoom, ZoomCap)
        /\ FEq(lastOp.zoom, FMin(ZoomCap, FMax(FitAllZoom, WantedZoom)))

\* C14 as the code has it: the zoom level is max(fitAllZoom, min(500, width /
\* (span / 0.5))): never below fitAllZoom; when fitAllZoom <= 500 it is at most
\* 500 and equals the stated formula; when fitAllZoom > 500 it is fitAllZoom.
C14_ZoomFloorWins ==
    (Zoomed /\ ZoomSpan > 0) =>
        /\ FLeq(FitAllZoom, lastOp.zoom)
        /\ FLeq(FitAllZoom, ZoomCap) =>
              /\ FLeq(lastOp.zoom, ZoomCap)
              /\ FEq(lastOp.zoom, FMin(ZoomCap, FMax(FitAllZoom, WantedZoom)))
        /\ ~FLeq(FitAllZoom, ZoomCap) => FEq(lastOp.zoom, FitAllZoom)

\* a zoom on audio so short that fitting all of it takes more than 500 px/s
C14_Witness ==
    /\ Zoomed /\ ZoomSpan > 0
    /\ ~FLeq(FitAllZoom, ZoomCap)
    /\ FEq(lastOp.zoom, FitAllZoom)

\* selectSegment was called with the number n or with its string form
SelectedAs(n) ==
    /\ lastOp.op = "selectSegment"
    /\ lastOp.arg \in {RowClick(n), RegionClick(n)}

\* C15: for every segment id n of the store, selectSegment called with the
\* number n or with the string form of n leaves selectedSegmentId = n (a
\* number) and sets the delete control, the highlight and the zoom for the
\* segment n.
C15_SelectByEitherForm ==
    \A i \in 1..Len(segments) :
        LET n == segments[i].segment_id
            first == \A j \in 1..(i - 1) : segments[j].segment_id # n
        IN  (SelectedAs(n) /\ first) =>
                /\ selectedSegmentId = n
                /\ lastOp.found
                /\ deleteBtnDisabled = (variant = "soft" /\ segments[i].markedForDeletion)
                /\ lastOp.highlight = {IdToString(n)} \cap DOMAIN regions
                /\ currentChunk # NullChunk =>
                      lastOp.zoom = ZoomToSegment(segments[i], currentChunk, lastOp.view)

\* the region of the second segment of the chunk was clicked
C15_Witness ==
    /\ Len(segments) >= 2
    /\ SelectedAs(segments[2].segment_id) /\ lastOp.arg.type = "string"
    /\ selectedSegmentId = segments[2].segment_id
    /\ lastOp.highlight # {}
    /\ ~deleteBtnDisabled

\* the DELETEs every batch in flight has sent so far
Issued(rs) == [r \in 1..Len(rs) |-> rs[r].issued]

\* C16: the step in which undo pops an edit entry or a soft-delete entry whose
\* segment is not in the store drops that entry, changes no segment and no
\* element of the pending list, sends nothing, and leaves the undo control
\* disabled exactly when the stack is empty.
C16_UndoMiss ==
    [][(lastOp'.op = "undo" /\ ~lastOp'.hit) =>
          /\ undoStack' = SubSeq(undoStack, 1, Len(undoStack) - 1)
          /\ segments' = segments
          /\ deletedSegments' = deletedSegments
          /\ puts' = puts /\ loads' = loads /\ Issued(runs') = Issued(runs)
          /\ undoBtnDisabled' = (undoStack' = <<>>)]_vars

\* the only entry of the stack was an edit of a segment that is gone
C16_Witness ==
    /\ lastOp.op = "undo" /\ ~lastOp.hit /\ lastOp.kind # "delete"
    /\ undoStack = <<>> /\ undoBtnDisabled
    /\ segments # <<>>
    /\ puts = <<>>

\* C17: every PUT the editor has sent carries a body that is not empty and
\* whose fields are among start_sec, end_sec and text.
C17_PutBody ==
    \A i \in 1..Len(puts) :
        /\ DOMAIN puts[i].updates # {}
        /\ DOMAIN puts[i].updates \subseteq {"start_sec", "end_sec", "text"}

\* C18: the step of a live region update changes only the start and end cells
\* of the row of the segment being dragged: the store, the undo stack, the
\* pending list, the unsaved flag and the selection stay as they are and
\* nothing is sent.
C18_LiveUpdateFrame ==
    [][lastOp'.op = "updateTableRowLive" =>
          /\ segments' = segments /\ undoStack' = undoStack
          /\ deletedSegments' = deletedSegments
          /\ hasUnsavedChanges' = hasUnsavedChanges
          /\ selectedSegmentId' = selectedSegmentId
          /\ puts' = puts /\ runs' = runs /\ loads' = loads /\ server' = server
          /\ Len(table') = Len(table)
          /\ \A i \in 1..Len(table) :
                /\ table'[i].segment_id = table[i].segment_id
                /\ table'[i].text = table[i].text
                /\ table[i].segment_id # lastOp'.id => table'[i] = table[i]]_vars

\* during a drag the row shows times the store does not hold
C18_Witness ==
    /\ lastOp.op = "updateTableRowLive"
    /\ HasSegment(segments, lastOp.id)
    /\ table # RenderTable(segments)
    /\ undoStack = <<>> /\ ~hasUnsavedChanges /\ puts = <<>>

\* an undo has popped its entry and awaits the answer to its PUT
UndoAwaiting == \E i \in 1..Len(puts) : puts[i].caller = "undo"

\* the handler that ran last pushed to the stack, or was the end of an undo or
\* of a batch that purged the stack
StackOpEnded ==
    \/ Mutated
    \/ lastOp.op = "undo" /\ lastOp.sent = <<>>
    \/ lastOp.op = "saveSegmentUpdateDone" /\ lastOp.caller = "undo"
    \/ lastOp.op = "deleteSegmentDone" /\ lastOp.ok /\ lastOp.done

C20_Navigate ==
    [][lastOp'.op = "navigateSegment" =>
          LET i == FindIndex(segments, selectedSegmentId)
              d == lastOp'.direction
          IN  /\ d \in {-1, 1}
              /\ segments' = segments
              /\ undoStack' = undoStack
              /\ deletedSegments' = deletedSegments
              /\ i # Null =>
                    selectedSegmentId' = IF i + d >= 1 /\ i + d <= Len(segments)
                                         THEN segments[i + d].segment_id
                                         ELSE selectedSegmentId]_vars

\* an arrow key has moved the selection from a segment of the list onto a
\* segment that is marked for deletion
C20_Witness ==
    /\ lastOp.op = "navigateSegment" /\ lastOp.moved /\ lastOp.index # Null
    /\ \E i \in 1..Len(segments) :
          /\ segments[i].segment_id = selectedSegmentId
          /\ segments[i].markedForDeletion
          /\ i = lastOp.index + lastOp.direction

UndidTimeEdit == lastOp.op = "undo" /\ lastOp.kind = "time" /\ lastOp.hit /\ lastOp.ok

\* the row of the table for segment id
RowOf(tbl, id) == tbl[CHOOSE i \in 1..Len(tbl) : tbl[i].segment_id = id]

\* after the undo of a table time edit the row shows the times of before the edit
C21_RowRestored ==
    UndidTimeEdit =>
        LET before == lastOp.pre[FindIndex(lastOp.pre, lastOp.id)]
        IN  /\ RowOf(table, lastOp.id).start = ToFixed2(before.start_sec)
            /\ RowOf(table, lastOp.id).end = ToFixed2(before.end_sec)

\* C21: when an undo pops the entry of a table time edit, and no chunk load,
\* save or finalize happened since that edit, every field of the edited segment
\* is what it was just before the edit, and the row shows the time of before
\* the edit.
C21_TimeEditUndo ==
    /\ C21_RowRestored
    /\ UndidTimeEdit =>
          segments[FindIndex(segments, lastOp.id)] = lastOp.pre[FindIndex(lastOp.pre, lastOp.id)]

\* loadChunk(a) and loadChunk(b) have both run to their end, b was started while the fetch of a was awaited, and no other call
\* ended meanwhile: b is the call that has just ended, or a is
LaterLoad ==
    LET last == lastOp.load
        peer == last.ended[1]
    IN  IF peer.tick \in last.over THEN last ELSE peer

OverlappedLoadsEnded ==
    /\ lastOp.op = "loadChunkAudio" /\ lastOp.ok /\ loads = <<>>
    /\ Len(lastOp.load.ended) = 1
    /\ lastOp.load.ended[1].ok
    /\ \/ lastOp.load.ended[1].tick \in lastOp.load.over
       \/ lastOp.load.tick \in lastOp.load.ended[1].over

\* C22: when loadChunk(b) was started before the segment fetch of loadChunk(a)
\* had returned, then once both calls have ended the current chunk is b and
\* the store holds the segments fetched for b, in whichever order the two
\* fetches were answered.
C22_OverlappingLoads ==
    OverlappedLoadsEnded =>
        /\ currentChunkId = LaterLoad.chunkId
        /\ currentChunk = chunks[LaterLoad.chunkId]
        /\ segments = LaterLoad.fetched

\* the ids a list of segments holds
IdSet(segs) == { segs[i].segment_id : i \in 1..Len(segs) }

\* a finalizeDeletes run has just ended with every DELETE answered
FinalizeEnded ==
    lastOp.op = "deleteSegmentDone" /\ lastOp.kind = "finalize" /\ lastOp.ok /\ lastOp.done

\* a DELETE for segment id has succeeded
Deleted(id) == ~server[id].present

\* C23: soft variant: every segment a finalizeDeletes run removes from
\* state.segments, and every id it clears from the pending list, is one for
\* which a DELETE has succeeded, also when a delete or an undo happened while
\* the run was awaiting an answer.
C23_FinalizeRemovesDeleted ==
    FinalizeEnded =>
        /\ \A id \in IdSet(lastOp.before.segments) \ IdSet(segments) : Deleted(id)
        /\ \A id \in Range(lastOp.before.deletedSegments) \ Range(deletedSegments) : Deleted(id)

\* C24: soft variant: whenever no saveAll or finalizeDeletes run is in flight,
\* the ids in the pending-deletion list are exactly the ids of the segments of
\* the store that are marked for deletion.
C24_PendingIsMarked ==
    (variant = "soft" /\ runs = <<>>) => Range(deletedSegments) = Range(MarkedIds(segments))

\* C25: in every step, an id that leaves the pending-deletion list is either
\* the id of the delete entry an undo has just popped, or an id for which a
\* DELETE has succeeded.
C25_NoPendingDropped ==
    [][\A id \in Range(deletedSegments) \ Range(deletedSegments') :
          \/ lastOp'.op = "undo" /\ lastOp'.kind = "delete" /\ lastOp'.id = id
          \/ ~server'[id].present]_vars

\* the id whose DELETE run r is awaiting
InFlight(r) == runs[r].issued[Len(runs[r].issued)]

\* C26: the pending-deletion list never holds an id twice, and no DELETE is
\* sent for an id for which another DELETE is in flight or has succeeded.
C26_NoDuplicateDeletes ==
    /\ \A i, j \in 1..Len(deletedSegments) :
          deletedSegments[i] = deletedSegments[j] => i = j
    /\ \A r \in 1..Len(runs) :
          /\ server[InFlight(r)].present
          /\ \A q \in 1..Len(runs) : InFlight(q) = InFlight(r) => q = r

\* C27: PUTs are neither serialized nor awaited by later edits, so the answer
\* that reaches the backend last wins: every PUT that succeeds leaves the
\* backend holding the values of its body, also when a PUT sent after it was
\* answered before it, and the answer does not touch the local store.  Hence
\* two edits of one field answered in reverse order leave the backend with the
\* first value and the store with the second.
C27_LastAnswerWins ==
    [][(lastOp'.op = "saveSegmentUpdateDone" /\ lastOp'.ok) =>
          /\ segments' = segments
          /\ \A f \in DOMAIN lastOp'.put.updates \cap {"start_sec", "end_sec", "text"} :
                server'[lastOp'.put.segmentId].row[f] = lastOp'.put.updates[f]]_vars

\* two text edits of one segment were sent in the order e1, e2 and answered,
\* both with success, in the order e2, e1: the backend holds the text of e1 and
\* the store the text of e2
C27_Witness ==
    /\ lastOp.op = "saveSegmentUpdateDone" /\ lastOp.ok /\ lastOp.caller = "edit"
    /\ puts = <<>>
    /\ Len(lastOp.put.ended) = 1
    /\ LET e1 == lastOp.put
           e2 == lastOp.put.ended[1]
       IN  /\ e2.ok /\ e2.tick < e1.tick /\ e2.segmentId = e1.segmentId
           /\ DOMAIN e1.updates = {"text"} /\ DOMAIN e2.updates = {"text"}
           /\ e1.updates.text # e2.updates.text
           /\ server[e1.segmentId].row.text = e1.updates.text
           /\ segments[FindIndex(segments, e1.segmentId)].text = e2.updates.text

\* C28: soft variant: in every state the region of a segment that is marked
\* for deletion carries the deletion colour.
C28_DeletedColour ==
    variant = "soft" =>
        \A i \in 1..Len(segments) :
            (segments[i].markedForDeletion /\ IdToString(segments[i].segment_id) \in DOMAIN regions)
                => regions[IdToString(segments[i].segment_id)].color = Red

\* C29: soft variant: in every state a row of the table carries the 'deleted'
\* marking exactly when its segment is marked for deletion.
C29_DeletedRows ==
    variant = "soft" =>
        \A i \in 1..Len(table) :
            \A j \in 1..Len(segments) :
                segments[j].segment_id = table[i].segment_id =>
                    (table[i].deleted <=> segments[j].markedForDeletion)

\* C30: right after deleteSelectedSegment has marked or removed the segment at
\* index i, the selection is the nearest following segment that is present and
\* not marked for deletion; when there is none, the nearest preceding one; when
\* there is none either, the selection is null and the delete control is
\* disabled.  A segment selected this way is never marked for deletion.
C30_SelectionAfterDelete ==
    lastOp.op = "deleteSelectedSegment" =>
        LET pre == shadow[Len(shadow)].pre
            i == FindIndex(pre, lastOp.id)
            after == { j \in (i + 1)..Len(pre) : ~pre[j].markedForDeletion }
            before == { j \in 1..(i - 1) : ~pre[j].markedForDeletion }
        IN  /\ IF after # {}
               THEN selectedSegmentId = pre[CHOOSE j \in after : \A k \in after : j <= k].segment_id
               ELSE IF before # {}
               THEN selectedSegmentId = pre[CHOOSE j \in before : \A k \in before : j >= k].segment_id
               ELSE selectedSegmentId = Null /\ deleteBtnDisabled
            /\ selectedSegmentId # Null =>
                  \E j \in 1..Len(segments) :
                      /\ segments[j].segment_id = selectedSegmentId
                      /\ ~segments[j].markedForDeletion

\* soft variant: the last segment of the chunk not yet marked was deleted, so
\* nothing is selected and the delete control is disabled
C30_Witness ==
    /\ lastOp.op = "deleteSelectedSegment" /\ variant = "soft"
    /\ Len(segments) = 2
    /\ \A j \in 1..Len(segments) : segments[j].markedForDeletion
    /\ selectedSegmentId = Null /\ deleteBtnDisabled

\* C31: the step of selectSegment(id) leaves the delete control disabled
\* exactly when no segment of state.segments has that id or the segment is
\* marked for deletion; the step, also for an id that is absent, changes
\* neither state.segments nor the undo stack nor the pending-deletion list.
C31_SelectSetsDeleteBtn ==
    [][lastOp'.op = "selectSegment" =>
          LET idx == FindIndex(segments', selectedSegmentId')
          IN  /\ deleteBtnDisabled' <=> (idx = Null \/ segments'[idx].markedForDeletion)
              /\ lastOp'.found <=> idx # Null
              /\ segments' = segments
              /\ undoStack' = undoStack
              /\ deletedSegments' = deletedSegments]_vars

\* the region of a segment that is no longer in the store was clicked
C31_Witness ==
    /\ lastOp.op = "selectSegment" /\ ~lastOp.found
    /\ selectedSegmentId # Null /\ ~HasSegment(segments, selectedSegmentId)
    /\ deleteBtnDisabled

\* the delete entries of the undo stack that are about segment id
DeleteEntries(stack, id) ==
    { k \in 1..Len(stack) : IsDelete(stack[k]) /\ EntryId(stack[k]) = id }

\* C32: soft variant: deleteSelectedSegment called while the selected segment
\* is already marked for deletion changes nothing (no undo entry, the pending
\* list and the selection as they were), and every marked segment of the store
\* has exactly one delete entry on the undo stack.
C32_MarkIdempotent ==
    [][/\ lastOp'.op = "deleteSelectedSegmentMarked" =>
             /\ undoStack' = undoStack
             /\ deletedSegments' = deletedSegments
             /\ selectedSegmentId' = selectedSegmentId
             /\ segments' = segments
       /\ variant = "soft" =>
             \A j \in 1..Len(segments') :
                 segments'[j].markedForDeletion =>
                     Cardinality(DeleteEntries(undoStack', segments'[j].segment_id)) = 1]_vars

\* C33: a text edit that ends with the typed text equal to the original, or
\* that is cancelled with Escape, pushes no undo entry, leaves the segments
\* as they were and sends no PUT; an edit committed with different text pushes
\* exactly one undo entry and sends exactly one PUT, also when Enter is
\* followed by the blur of the removed input
C33_TextEditCommit ==
    [][/\ lastOp'.op = "finishEdit"
          => /\ undoStack' = undoStack
             /\ segments' = segments
             /\ puts' = puts
       /\ lastOp'.op = "startTextEdit"
          => LET idx == FindIndex(segments, lastOp'.id)
             IN  /\ Save(lastOp'.ending[1])
                 /\ segments'[idx].text # segments[idx].text
                 /\ Len(undoStack') = Len(undoStack) + 1
                 /\ undoStack'[Len(undoStack')] =
                        [segmentId |-> lastOp'.id, oldText |-> segments[idx].text]
                 /\ Len(puts') = Len(puts) + 1
                 /\ puts'[Len(puts')].updates = [text |-> segments'[idx].text]]_vars

\* an edit was committed by Enter followed by blur
C33_Witness ==
    /\ lastOp.op = "startTextEdit"
    /\ lastOp.ending = <<"Enter", "blur">>
    /\ Len(undoStack) = 1
    /\ Len(puts) = 1

\* C34: a table time edit is a no-op exactly when the value entered equals the
\* original time at 2-decimal precision: an edit is committed only with an
\* input whose value, rounded to 2 decimals, differs from the original, and a
\* committed edit pushes exactly one undo entry and sends exactly one PUT
C34_TimeEditNoop ==
    [][lastOp'.op = "startTimeEdit"
       => /\ Len(undoStack') = Len(undoStack) + 1
          /\ Len(puts') = Len(puts) + 1
          /\ ParseFloat(lastOp'.newTime) # NaN
          /\ ToFixed2(ParseFloat(lastOp'.newTime)) # undoStack'[Len(undoStack')].time]_vars

\* createRegions was the last thing to write the positions of the regions: a
\* chunk's audio became ready, or an undo put back an edit or a removed segment
RegionsCreated ==
    /\ currentChunk # NullChunk
    /\ \/ lastOp.op = "loadChunkAudio" /\ lastOp.ok
       \/ /\ lastOp.op = "undo"
          /\ lastOp.hit
          /\ lastOp.kind # "delete" \/ variant = "hard"

\* no two segments of the store have the same id, so that a region id names
\* one region
DistinctIds(segs) ==
    \A i, j \in 1..Len(segs) : segs[i].segment_id = segs[j].segment_id => i = j

\* the segments of the store that createRegions does not skip
Projected ==
    { i \in 1..Len(segments) :
        /\ segments[i].end_sec - currentChunk.start_time >= 0
        /\ segments[i].start_sec - currentChunk.start_time <= ChunkDuration }

\* C35: after createRegions over a store of distinct ids there is exactly one
\* region per segment of the store whose local end is >= 0 and whose local start is <= the duration of
\* the waveform, and no other region; its id is the decimal string of the
\* segment's id, its start is max(0, local start), its end is min(duration,
\* local end), and 0 <= start <= end <= duration
C35_RegionProjection ==
    (RegionsCreated /\ DistinctIds(segments))
    => /\ DOMAIN regions = { IdToString(segments[i].segment_id) : i \in Projected }
       /\ Cardinality(DOMAIN regions) = Cardinality(Projected)
       /\ \A i \in Projected :
            LET region == regions[IdToString(segments[i].segment_id)]
                localStart == segments[i].start_sec - currentChunk.start_time
                localEnd == segments[i].end_sec - currentChunk.start_time
            IN  /\ region.start = Max(0, localStart)
                /\ region.end = Min(ChunkDuration, localEnd)
                /\ 0 <= region.start
                /\ region.start <= region.end
                /\ region.end <= ChunkDuration

\* regions were created for a chunk with a segment that runs past the end of
\* the audio, and for a chunk with a segment that starts before it
C35_Witness ==
    /\ RegionsCreated
    /\ DistinctIds(segments)
    /\ \E i \in Projected :
         \/ segments[i].end_sec - currentChunk.start_time > ChunkDuration
         \/ segments[i].start_sec - currentChunk.start_time < 0

\* the midpoint of the selected segment on the waveform, in ms
ZoomMid ==
    LET seg == segments[FindIndex(segments, selectedSegmentId)]
    IN  <<(seg.start_sec - currentChunk.start_time)
          + (seg.end_sec - currentChunk.start_time), 2>>

\* where the view would start with the midpoint in its middle, in px
WantedScroll == FSub(FMul(ZoomMid, lastOp.zoom), <<lastOp.view.width, 2>>)

\* the last scrollable pixel: max(0, zoom * totalDuration - viewportWidth)
LastScroll ==
    FMax(<<0, 1>>, FSub(FMul(lastOp.zoom, <<lastOp.view.duration, 1>>),
                        <<lastOp.view.width, 1>>))

\* C36: the scroll offset zoomToSegment requests is the position of the
\* segment's midpoint in px at the applied zoom minus half the viewport width,
\* clamped to [0, max(0, zoom * totalDuration - viewportWidth)]: it is never
\* negative and never beyond the last scrollable pixel
C36_ScrollClamp ==
    Zoomed =>
        /\ FEq(lastOp.scroll,
               IF FLess(WantedScroll, <<0, 1>>) THEN <<0, 1>>
               ELSE IF FLess(LastScroll, WantedScroll) THEN LastScroll
               ELSE WantedScroll)
        /\ FLeq(<<0, 1>>, lastOp.scroll)
        /\ FLeq(lastOp.scroll, LastScroll)

\* a zoom where centring the segment would scroll before the first pixel
C36_Witness ==
    /\ Zoomed
    /\ FLess(WantedScroll, <<0, 1>>)
    /\ FLess(<<0, 1>>, LastScroll)
    /\ FEq(lastOp.scroll, <<0, 1>>)

\* no handler is awaiting the network: no chunk load, no PUT and no batch of
\* DELETEs is in flight
Quiescent == loads = <<>> /\ puts = <<>> /\ runs = <<>>

\* C37: at every quiescent state, selectedSegmentId is null or the id of a
\* segment of the store
C37_SelectionValid ==
    Quiescent => (selectedSegmentId = Null \/ HasSegment(segments, selectedSegmentId))

\* C38: whenever the pending-deletion list is not empty, hasUnsavedChanges is
\* TRUE, also while saveAll or finalizeDeletes is awaiting the network
C38_PendingMeansUnsaved ==
    deletedSegments # <<>> => hasUnsavedChanges

\* a delete was performed while a batch that has sent a DELETE is awaiting
\* its answer
C38_Witness ==
    /\ lastOp.op = "deleteSelectedSegment"
    /\ runs # <<>>
    /\ runs[1].issued # <<>>
    /\ deletedSegments # <<>>
    /\ hasUnsavedChanges

\* C39: the delayed auto-clear scheduled by a 'saved' status only ever clears
\* a 'saved' status: a 'Save failed' or a 'Saving...' status set by a later
\* operation is never erased by the timer of an earlier 'saved' status
C39_TimerClearsSaved ==
    [][(lastOp'.op = "statusTimeout" /\ status.message # "") => status.type = "saved"]_vars

====
